---- MODULE Spec2Model ----
(***************************************************************************)
(* A model of the SoQL query builder (src/src/builder/QueryBuilder.ts),   *)
(* its value formatting (encoding utilities) and its validation           *)
(* (src/src/utils/validation.ts).                                         *)
(*                                                                         *)
(* Strings of the program are sequences of one-character strings, so that *)
(* template literals, join, replace and toLowerCase are computed and not  *)
(* assumed.  A WhereValue is a tagged record [t, v].                      *)
(***************************************************************************)
EXTENDS Integers, Sequences, FiniteSets, TLC

VARIABLES
    selectFields,       \* string[] | null
    whereConditions,    \* WhereCondition[]
    orderByConditions,  \* OrderByCondition[]
    groupByFields,      \* string[] | null
    havingConditions,   \* HavingCondition[]
    limitValue,         \* number | null
    offsetValue,        \* number | null
    clientBinding,      \* { client, resourceId } | null
    calls,              \* history: the clause mutator calls that returned, in call order
    last,               \* history: the last call made, with its outcome
    previous,           \* history: the builder before that call, and a build() just before it
    sent,               \* history: the executeQuery and fetch calls the last call made
    shared,             \* the places of the builder that hold an array the caller passed in
    other,              \* a second builder of the caller, set aside while it uses this one
    inflight            \* the execute() calls that reached fetch and have not settled

builder == <<selectFields, whereConditions, orderByConditions, groupByFields,
             havingConditions, limitValue, offsetValue, clientBinding>>

vars == <<selectFields, whereConditions, orderByConditions, groupByFields,
          havingConditions, limitValue, offsetValue, clientBinding, calls, last, previous,
          sent, shared, other, inflight>>

----------------------------------------------------------------------------
(* Bounds of the model *)

\* the number of mutator calls made on one builder
MaxCalls == 2

\* the length of a string value
MaxStrLen == 2

\* the length of an array value
MaxArrLen == 2

\* the number of execute() calls suspended at the same time
MaxInFlight == 2

----------------------------------------------------------------------------
(* Strings *)

SP == <<" ">>
COMMA == <<",">>
QUOTE == <<"'">>
EMPTY == <<>>

RECURSIVE join(_, _)
\* Array.prototype.join
join(parts, sep) ==
    IF Len(parts) = 0 THEN EMPTY
    ELSE IF Len(parts) = 1 THEN parts[1]
    ELSE parts[1] \o sep \o join(Tail(parts), sep)

DigitChars == <<"0", "1", "2", "3", "4", "5", "6", "7", "8", "9">>

RECURSIVE natToString(_)
natToString(n) ==
    IF n < 10 THEN <<DigitChars[n + 1]>>
    ELSE natToString(n \div 10) \o <<DigitChars[(n % 10) + 1]>>

\* Number.prototype.toString of an integer
numberToString(n) ==
    IF n < 0 THEN <<"-">> \o natToString(0 - n) ELSE natToString(n)

\* Boolean.prototype.toString
booleanToString(b) ==
    IF b THEN <<"t", "r", "u", "e">> ELSE <<"f", "a", "l", "s", "e">>

----------------------------------------------------------------------------
(* WhereValue = string | number | boolean | null | string[] | number[] *)

Null == [t |-> "null", v |-> 0]
Bool(b) == [t |-> "boolean", v |-> b]
Num(n) == [t |-> "number", v |-> n]
Str(s) == [t |-> "string", v |-> s]
Arr(a) == [t |-> "array", v |-> a]

\* Array.isArray
isArray(value) == value.t = "array"

----------------------------------------------------------------------------
(* ComparisonOperator *)

OpEq == <<"=">>
OpNe == <<"!", "=">>
OpLt == <<"<">>
OpGt == <<">">>
OpLe == <<"<", "=">>
OpGe == <<">", "=">>
OpLike == <<"L", "I", "K", "E">>
OpIn == <<"I", "N">>
OpIsNull == <<"I", "S", " ", "N", "U", "L", "L">>
OpIsNotNull == <<"I", "S", " ", "N", "O", "T", " ", "N", "U", "L", "L">>

validOperators ==
    <<OpEq, OpNe, OpLt, OpGt, OpLe, OpGe, OpLike, OpIn, OpIsNull, OpIsNotNull>>

\* String.prototype.toUpperCase, on the letters an operator is spelled with
toUpperCase(s) ==
    [i \in 1..Len(s) |->
        CASE s[i] = "l" -> "L"
          [] s[i] = "i" -> "I"
          [] s[i] = "k" -> "K"
          [] s[i] = "e" -> "E"
          [] s[i] = "n" -> "N"
          [] OTHER -> s[i]]

\* a validateOperator that compares ignoring case
validateOperator_IgnoreCase(operator) ==
    \E i \in 1..Len(validOperators) : validOperators[i] = toUpperCase(operator)

\* validOperators.includes(operator)
validateOperator(operator) ==
    \E i \in 1..Len(validOperators) : validOperators[i] = operator

----------------------------------------------------------------------------
(* Outcomes of a call: a returned value, undefined, or a thrown error *)

Ret(x) == [kind |-> "value", val |-> x]
Undefined == [kind |-> "undefined", val |-> EMPTY]
Throw(e) == [kind |-> "throw", val |-> e]

InvalidOperator == "Invalid operator"
InvalidInValue == "IN operator requires an array value"
InvalidDirection == "Invalid order direction"
NotBound == "QueryBuilder is not bound to a client"

----------------------------------------------------------------------------
(* Value formatting *)

\* an escapeString that leaves the quotes as they are
escapeString_Identity(value) == value

RECURSIVE escapeString(_)
\* value.replace(/'/g, "''")
escapeString(value) ==
    IF Len(value) = 0 THEN EMPTY
    ELSE (IF Head(value) = "'" THEN <<"'", "'">> ELSE <<Head(value)>>)
             \o escapeString(Tail(value))

\* a map callback that quotes numbers as it quotes strings
formatElement_QuoteAll(v) ==
    IF v.t = "number" THEN QUOTE \o numberToString(v.v) \o QUOTE
    ELSE QUOTE \o escapeString(v.v) \o QUOTE

\* the callback of value.map in formatValue
formatElement(v) ==
    IF v.t = "number" THEN numberToString(v.v)
    ELSE QUOTE \o escapeString(v.v) \o QUOTE

formatValue(value) ==
    IF value.t = "null" THEN <<"N", "U", "L", "L">>
    ELSE IF value.t = "boolean" THEN booleanToString(value.v)
    ELSE IF value.t = "number" THEN numberToString(value.v)
    ELSE IF isArray(value) THEN
        IF Len(value.v) = 0 THEN <<"(", ")">>
        ELSE <<"(">>
                 \o join([i \in 1..Len(value.v) |-> formatElement(value.v[i])], COMMA)
                 \o <<")">>
    ELSE QUOTE \o escapeString(value.v) \o QUOTE

\* a formatWhereValue without the array check of IN
formatWhereValue_NoInCheck(operator, value) ==
    IF operator = OpIsNull \/ operator = OpIsNotNull THEN Ret(EMPTY)
    ELSE Ret(formatValue(value))

formatWhereValue(operator, value) ==
    IF operator = OpIsNull \/ operator = OpIsNotNull THEN Ret(EMPTY)
    ELSE IF operator = OpIn THEN
        IF ~isArray(value) THEN Throw(InvalidInValue)
        ELSE Ret(formatValue(value))
    ELSE Ret(formatValue(value))

----------------------------------------------------------------------------
(* Validation *)

\* String.prototype.toLowerCase, on the letters a direction is spelled with
toLowerCase(s) ==
    [i \in 1..Len(s) |->
        CASE s[i] = "A" -> "a"
          [] s[i] = "S" -> "s"
          [] s[i] = "C" -> "c"
          [] s[i] = "D" -> "d"
          [] s[i] = "E" -> "e"
          [] OTHER -> s[i]]

ASC == <<"A", "S", "C">>
DESC == <<"D", "E", "S", "C">>

\* direction is [t |-> "undefined"] or a string
normalizeOrderDirection(direction) ==
    IF direction.t = "undefined" \/ direction.v = EMPTY THEN Ret(ASC)
    ELSE LET normalized == toLowerCase(direction.v) IN
         IF normalized = <<"a", "s", "c">> THEN Ret(ASC)
         ELSE IF normalized = <<"d", "e", "s", "c">> THEN Ret(DESC)
         ELSE Throw(InvalidDirection)

----------------------------------------------------------------------------
(* Rendering *)

\* if (x) on a string | undefined
truthy(r) == r.kind = "value" /\ r.val # EMPTY

\* a conditionStr whose template omits the space before the value
conditionStr_NoSpace(condition) ==
    IF condition.isRaw /\ condition.rawCondition # EMPTY THEN Ret(condition.rawCondition)
    ELSE LET head == condition.column \o SP \o condition.operator IN
         IF condition.operator # OpIsNull /\ condition.operator # OpIsNotNull
         THEN LET formattedValue == formatWhereValue(condition.operator, condition.value)
              IN IF formattedValue.kind = "throw" THEN formattedValue
                 ELSE Ret(head \o formattedValue.val)
         ELSE Ret(head)

\* what one iteration of buildWhereClause's loop pushes for the condition itself
conditionStr(condition) ==
    IF condition.isRaw /\ condition.rawCondition # EMPTY THEN Ret(condition.rawCondition)
    ELSE LET head == condition.column \o SP \o condition.operator IN
         IF condition.operator # OpIsNull /\ condition.operator # OpIsNotNull
         THEN LET formattedValue == formatWhereValue(condition.operator, condition.value)
              IN IF formattedValue.kind = "throw" THEN formattedValue
                 ELSE Ret(head \o SP \o formattedValue.val)
         ELSE Ret(head)

RECURSIVE whereParts_TokenFirst(_, _)
\* a loop that pushes the join token before every condition, the first included
whereParts_TokenFirst(conditions, n) ==
    IF n = 0 THEN Ret(<<>>)
    ELSE LET before == whereParts_TokenFirst(conditions, n - 1) IN
         IF before.kind = "throw" THEN before
         ELSE LET condition == conditions[n]
                  str == conditionStr(condition)
              IN IF str.kind = "throw" THEN str
                 ELSE Ret(before.val \o <<condition.logicalOperator>> \o <<str.val>>)

RECURSIVE whereParts(_, _)
\* parts after the first n iterations of buildWhereClause's loop, or the error thrown
whereParts(conditions, n) ==
    IF n = 0 THEN Ret(<<>>)
    ELSE LET before == whereParts(conditions, n - 1) IN
         IF before.kind = "throw" THEN before
         ELSE LET condition == conditions[n]
                  str == conditionStr(condition)
              IN IF str.kind = "throw" THEN str
                 ELSE Ret(before.val
                              \o (IF n - 1 > 0 THEN <<condition.logicalOperator>> ELSE <<>>)
                              \o <<str.val>>)

\* a buildWhereClause that leaves out the conditions when one cannot be rendered
buildWhereClause_SkipUnrenderable ==
    IF Len(whereConditions) = 0 THEN Undefined
    ELSE LET parts == whereParts(whereConditions, Len(whereConditions)) IN
         IF parts.kind = "throw" THEN Undefined ELSE Ret(join(parts.val, SP))

buildWhereClause ==
    IF Len(whereConditions) = 0 THEN Undefined
    ELSE LET parts == whereParts(whereConditions, Len(whereConditions)) IN
         IF parts.kind = "throw" THEN parts ELSE Ret(join(parts.val, SP))

buildOrderByClause ==
    IF Len(orderByConditions) = 0 THEN Undefined
    ELSE Ret(join([i \in 1..Len(orderByConditions) |->
                      orderByConditions[i].column \o SP \o orderByConditions[i].direction],
                  COMMA))

buildGroupByClause ==
    IF groupByFields.t = "null" \/ Len(groupByFields.v) = 0 THEN Undefined
    ELSE Ret(join(groupByFields.v, COMMA))

\* a havingConditionStr that appends the formatted value after every operator
havingConditionStr_AlwaysValue(condition) ==
    LET head == condition.column \o SP \o condition.operator
        formattedValue == formatWhereValue(condition.operator, condition.value)
    IN IF formattedValue.kind = "throw" THEN formattedValue
       ELSE Ret(head \o SP \o formattedValue.val)

\* what one iteration of buildHavingClause's loop pushes for the condition itself
havingConditionStr(condition) ==
    LET head == condition.column \o SP \o condition.operator IN
    IF condition.operator # OpIsNull /\ condition.operator # OpIsNotNull
    THEN LET formattedValue == formatWhereValue(condition.operator, condition.value)
         IN IF formattedValue.kind = "throw" THEN formattedValue
            ELSE Ret(head \o SP \o formattedValue.val)
    ELSE Ret(head)

RECURSIVE havingParts(_, _)
\* parts after the first n iterations of buildHavingClause's loop, or the error thrown
havingParts(conditions, n) ==
    IF n = 0 THEN Ret(<<>>)
    ELSE LET before == havingParts(conditions, n - 1) IN
         IF before.kind = "throw" THEN before
         ELSE LET condition == conditions[n]
                  str == havingConditionStr(condition)
              IN IF str.kind = "throw" THEN str
                 ELSE Ret(before.val
                              \o (IF n - 1 > 0 THEN <<condition.logicalOperator>> ELSE <<>>)
                              \o <<str.val>>)

buildHavingClause ==
    IF Len(havingConditions) = 0 THEN Undefined
    ELSE LET parts == havingParts(havingConditions, Len(havingConditions)) IN
         IF parts.kind = "throw" THEN parts ELSE Ret(join(parts.val, SP))

ParamKeys == {"$select", "$where", "$order", "$group", "$having", "$limit", "$offset"}

\* build(): the parameter mapping (a function on the keys present), or the error thrown
build ==
    LET whereClause == buildWhereClause
        orderByClause == buildOrderByClause
        groupByClause == buildGroupByClause
        havingClause == buildHavingClause
        present(k) ==
            CASE k = "$select" -> selectFields.t # "null" /\ Len(selectFields.v) > 0
              [] k = "$where" -> truthy(whereClause)
              [] k = "$order" -> truthy(orderByClause)
              [] k = "$group" -> truthy(groupByClause)
              [] k = "$having" -> truthy(havingClause)
              [] k = "$limit" -> limitValue.t # "null"
              [] k = "$offset" -> offsetValue.t # "null"
    IN IF whereClause.kind = "throw" THEN whereClause
       ELSE IF havingClause.kind = "throw" THEN havingClause
       ELSE Ret([k \in {x \in ParamKeys : present(x)} |->
                    CASE k = "$select" -> join(selectFields.v, COMMA)
                      [] k = "$where" -> whereClause.val
                      [] k = "$order" -> orderByClause.val
                      [] k = "$group" -> groupByClause.val
                      [] k = "$having" -> havingClause.val
                      [] k = "$limit" -> limitValue.v
                      [] k = "$offset" -> offsetValue.v])

----------------------------------------------------------------------------
(* SodaClient: the transport *)

\* a rejection with an Error whose message is computed
Reject(message) == [kind |-> "reject", val |-> message]

\* SodaClientState of a client; the client "untimed" has no timeout configured
state(client) ==
    [domain |-> <<"h", "t", "t", "p", ":", "/", "/", "h">>,
     appToken |-> <<"k">>,
     timeout |-> IF client = "untimed" THEN 0 ELSE 50]

\* domain.replace(/^https?:\/\//, '')
stripScheme(domain) ==
    IF Len(domain) >= 8 /\ SubSeq(domain, 1, 8) = <<"h", "t", "t", "p", "s", ":", "/", "/">>
    THEN SubSeq(domain, 9, Len(domain))
    ELSE IF Len(domain) >= 7 /\ SubSeq(domain, 1, 7) = <<"h", "t", "t", "p", ":", "/", "/">>
    THEN SubSeq(domain, 8, Len(domain))
    ELSE domain

\* the application/x-www-form-urlencoded byte serialisation of one character
encodeChar(c) ==
    CASE c = " " -> <<"+">>
      [] c = "!" -> <<"%", "2", "1">>
      [] c = "$" -> <<"%", "2", "4">>
      [] c = "'" -> <<"%", "2", "7">>
      [] c = "(" -> <<"%", "2", "8">>
      [] c = ")" -> <<"%", "2", "9">>
      [] c = "," -> <<"%", "2", "C">>
      [] c = "<" -> <<"%", "3", "C">>
      [] c = "=" -> <<"%", "3", "D">>
      [] c = ">" -> <<"%", "3", "E">>
      [] OTHER -> <<c>>

RECURSIVE urlencode(_)
\* how URLSearchParams.toString writes a name or a value
urlencode(str) ==
    IF Len(str) = 0 THEN EMPTY ELSE encodeChar(Head(str)) \o urlencode(Tail(str))

\* the keys of SoQLQueryParams in the order buildQueryUrl tests them
ParamOrder == <<"$select", "$where", "$order", "$group", "$having", "$limit", "$offset">>

\* the name a key is appended under
paramName(k) ==
    CASE k = "$select" -> <<"$", "s", "e", "l", "e", "c", "t">>
      [] k = "$where" -> <<"$", "w", "h", "e", "r", "e">>
      [] k = "$order" -> <<"$", "o", "r", "d", "e", "r">>
      [] k = "$group" -> <<"$", "g", "r", "o", "u", "p">>
      [] k = "$having" -> <<"$", "h", "a", "v", "i", "n", "g">>
      [] k = "$limit" -> <<"$", "l", "i", "m", "i", "t">>
      [] k = "$offset" -> <<"$", "o", "f", "f", "s", "e", "t">>

\* a buildQueryUrl that tests $limit and $offset for truthiness
buildQueryUrl_Truthy(client, resourceId, queryParams) ==
    LET baseUrl == <<"h", "t", "t", "p", "s", ":", "/", "/">>
                       \o stripScheme(state(client).domain)
                       \o <<"/", "r", "e", "s", "o", "u", "r", "c", "e", "/">>
                       \o resourceId \o <<".", "j", "s", "o", "n">>
        appended(k) ==
            /\ k \in DOMAIN queryParams
            /\ IF k \in {"$limit", "$offset"} THEN queryParams[k] # 0
               ELSE queryParams[k] # EMPTY
        value(k) ==
            IF k \in {"$limit", "$offset"} THEN numberToString(queryParams[k])
            ELSE queryParams[k]
        params == SelectSeq(ParamOrder, appended)
        queryString ==
            join([i \in 1..Len(params) |->
                     urlencode(paramName(params[i])) \o <<"=">> \o urlencode(value(params[i]))],
                 <<"&">>)
    IN IF queryString # EMPTY THEN baseUrl \o <<"?">> \o queryString ELSE baseUrl

buildQueryUrl(client, resourceId, queryParams) ==
    LET baseUrl == <<"h", "t", "t", "p", "s", ":", "/", "/">>
                       \o stripScheme(state(client).domain)
                       \o <<"/", "r", "e", "s", "o", "u", "r", "c", "e", "/">>
                       \o resourceId \o <<".", "j", "s", "o", "n">>
        appended(k) ==
            /\ k \in DOMAIN queryParams
            /\ k \notin {"$limit", "$offset"} => queryParams[k] # EMPTY
        value(k) ==
            IF k \in {"$limit", "$offset"} THEN numberToString(queryParams[k])
            ELSE queryParams[k]
        params == SelectSeq(ParamOrder, appended)
        queryString ==
            join([i \in 1..Len(params) |->
                     urlencode(paramName(params[i])) \o <<"=">> \o urlencode(value(params[i]))],
                 <<"&">>)
    IN IF queryString # EMPTY THEN baseUrl \o <<"?">> \o queryString ELSE baseUrl

\* the headers as a set of <<name, value>> pairs
buildHeaders(client) ==
    IF state(client).appToken # EMPTY
    THEN {<<"X-App-Token", state(client).appToken>>}
    ELSE {}

\* a JSON object, as the sequence of its <<key, number>> members
Obj(members) == [t |-> "object", v |-> members]

\* a response body that is the JSON text of data
JsonBody(data) == [t |-> "json", v |-> data]

\* a response body that is not JSON
TextBody(text) == [t |-> "text", v |-> text]

\* a response body whose stream the abort signal ended before it was read
AbortedBody == [t |-> "aborted", v |-> EMPTY]

SyntaxError == <<"S", "y", "n", "t", "a", "x", "E", "r", "r", "o", "r">>

AbortError == <<"A", "b", "o", "r", "t", "E", "r", "r", "o", "r">>

\* response.json(): the decoded body, or a rejection with an Error of the name
json(body) ==
    IF body.t = "json" THEN Ret(body.v)
    ELSE IF body.t = "aborted" THEN Reject(AbortError)
    ELSE Reject(SyntaxError)

\* JSON.stringify of a number, an array of numbers or an object of numbers
stringify(data) ==
    IF data.t = "number" THEN numberToString(data.v)
    ELSE IF data.t = "array"
    THEN <<"[">> \o join([i \in 1..Len(data.v) |-> numberToString(data.v[i].v)], COMMA)
             \o <<"]">>
    ELSE <<"{">>
             \o join([i \in 1..Len(data.v) |->
                          <<"\"">> \o data.v[i][1] \o <<"\"", ":">>
                              \o numberToString(data.v[i][2])],
                     COMMA)
             \o <<"}">>

\* what fetch settles with: a response, or a rejection
Response(status, statusText, body) ==
    [kind |-> "response", status |-> status, statusText |-> statusText, body |-> body,
     name |-> "", message |-> EMPTY]

\* a rejection with an Error of the given name
FetchError(name, message) ==
    [kind |-> "error", status |-> 0, statusText |-> EMPTY, body |-> TextBody(EMPTY),
     name |-> name, message |-> message]

\* a rejection with a value that is not an Error; message is String(error)
FetchNonError(message) ==
    [kind |-> "nonerror", status |-> 0, statusText |-> EMPTY, body |-> TextBody(EMPTY),
     name |-> "", message |-> message]

\* Response.ok
ok(response) == response.status >= 200 /\ response.status <= 299

ApiErrorPrefix ==
    <<"S", "O", "D", "A", " ", "A", "P", "I", " ", "e", "r", "r", "o", "r", ":", " ">>

TimeoutPrefix ==
    <<"R", "e", "q", "u", "e", "s", "t", " ", "t", "i", "m", "e", "o", "u", "t", " ",
      "a", "f", "t", "e", "r", " ">>

UnknownPrefix ==
    <<"U", "n", "k", "n", "o", "w", "n", " ", "e", "r", "r", "o", "r", ":", " ">>

\* an executeQuery that wraps every decoded body in a one-element array
executeQuery_WrapAlways(client, resourceId, queryParams, fetched) ==
    LET url == buildQueryUrl(client, resourceId, queryParams)
        headers == buildHeaders(client)
        request == [url |-> url, method |-> "GET", headers |-> headers,
                    fetched |-> fetched]
        settled ==
            IF fetched.kind = "response"
            THEN IF ~ok(fetched)
                 THEN LET parsed == json(fetched.body)
                          errorData == IF parsed.kind = "reject" THEN Obj(<<>>)
                                       ELSE parsed.val
                      IN Reject(ApiErrorPrefix \o numberToString(fetched.status) \o SP
                                    \o fetched.statusText \o <<".", " ">>
                                    \o stringify(errorData))
                 ELSE LET data == json(fetched.body) IN
                      IF data.kind = "reject"
                      THEN IF data.val = AbortError
                           THEN Reject(TimeoutPrefix
                                           \o numberToString(state(client).timeout)
                                           \o <<"m", "s">>)
                           ELSE data
                      ELSE Ret([data |-> Arr(<<data.val>>)])
            ELSE IF fetched.kind = "error"
            THEN IF fetched.name = "AbortError"
                 THEN Reject(TimeoutPrefix \o numberToString(state(client).timeout)
                                 \o <<"m", "s">>)
                 ELSE Reject(fetched.message)
            ELSE Reject(UnknownPrefix \o fetched.message)
    IN [outcome |-> settled, fetch |-> <<request>>]

\* executeQuery(resourceId, queryParams) of client, when fetch settles with fetched:
\* what the promise settles with, and the fetch calls made (each with what it
\* settled with)
executeQuery(client, resourceId, queryParams, fetched) ==
    LET url == buildQueryUrl(client, resourceId, queryParams)
        headers == buildHeaders(client)
        request == [url |-> url, method |-> "GET", headers |-> headers,
                    fetched |-> fetched]
        settled ==
            IF fetched.kind = "response"
            THEN IF ~ok(fetched)
                 THEN LET parsed == json(fetched.body)
                          errorData == IF parsed.kind = "reject" THEN Obj(<<>>)
                                       ELSE parsed.val
                      IN Reject(ApiErrorPrefix \o numberToString(fetched.status) \o SP
                                    \o fetched.statusText \o <<".", " ">>
                                    \o stringify(errorData))
                 ELSE LET data == json(fetched.body) IN
                      IF data.kind = "reject"
                      THEN IF data.val = AbortError
                           THEN Reject(TimeoutPrefix
                                           \o numberToString(state(client).timeout)
                                           \o <<"m", "s">>)
                           ELSE data
                      ELSE Ret([data |-> IF isArray(data.val) THEN data.val
                                         ELSE Arr(<<data.val>>)])
            ELSE IF fetched.kind = "error"
            THEN IF fetched.name = "AbortError"
                 THEN Reject(TimeoutPrefix \o numberToString(state(client).timeout)
                                 \o <<"m", "s">>)
                 ELSE Reject(fetched.message)
            ELSE Reject(UnknownPrefix \o fetched.message)
    IN [outcome |-> settled, fetch |-> <<request>>]

\* a call that reaches no transport
NoTraffic == [executeQuery |-> <<>>, fetch |-> <<>>]

\* the record of one executeQuery call: its arguments and what it settled with
Delegated(client, resourceId, queryParams, result) ==
    [client |-> client, resourceId |-> resourceId, queryParams |-> queryParams,
     result |-> result]

\* a delegation that calls executeQuery a second time when it rejected
delegate_Retry(queryParams, fetched) ==
    LET client == clientBinding.v.client
        resourceId == clientBinding.v.resourceId
    IN CHOOSE settled \in
           {LET one == <<Delegated(client, resourceId, queryParams, called.outcome)>> IN
            [outcome |-> called.outcome,
             sent |-> IF called.outcome.kind = "reject"
                      THEN [executeQuery |-> one \o one,
                            fetch |-> called.fetch \o called.fetch]
                      ELSE [executeQuery |-> one, fetch |-> called.fetch]] :
              called \in {executeQuery(client, resourceId, queryParams, fetched)}} : TRUE

\* return this.clientBinding.client.executeQuery(this.clientBinding.resourceId,
\* queryParams): what execute() settles with, and the calls made
delegate(queryParams, fetched) ==
    LET client == clientBinding.v.client
        resourceId == clientBinding.v.resourceId
    IN CHOOSE settled \in
           {[outcome |-> called.outcome,
             sent |-> [executeQuery |->
                           <<Delegated(client, resourceId, queryParams, called.outcome)>>,
                       fetch |-> called.fetch]] :
              called \in {executeQuery(client, resourceId, queryParams, fetched)}} : TRUE

\* an execute() that renders before it tests the binding
execute_BuildFirst(fetched) ==
    CHOOSE settled \in
        {IF queryParams.kind = "throw" THEN [outcome |-> queryParams, sent |-> NoTraffic]
         ELSE IF clientBinding.t = "null"
         THEN [outcome |-> Throw(NotBound), sent |-> NoTraffic]
         ELSE delegate(queryParams.val, fetched) :
           queryParams \in {build}} : TRUE

\* execute(), when fetch settles with fetched: what the promise settles with, and
\* the executeQuery and fetch calls made (queryParams is computed once, as
\* const queryParams = this.build() computes it)
execute(fetched) ==
    IF clientBinding.t = "null" THEN [outcome |-> Throw(NotBound), sent |-> NoTraffic]
    ELSE CHOOSE settled \in
             {IF queryParams.kind = "throw"
              THEN [outcome |-> queryParams, sent |-> NoTraffic]
              ELSE delegate(queryParams.val, fetched) :
                queryParams \in {build}} : TRUE

----------------------------------------------------------------------------
(* The builder's calls *)

AND == <<"A", "N", "D">>
OR == <<"O", "R">>

NoDirection == [t |-> "undefined", v |-> EMPTY]

Call(m, column, operator, value) ==
    [m |-> m, column |-> column, operator |-> operator, value |-> value]

ReturnsThis == [kind |-> "this", val |-> EMPTY]

\* what build() returned, when the last call made on the builder was build()
Held == IF last.call.m = "build" THEN last.outcome ELSE Undefined

\* the builder as a call finds it, what build() returned when the call made
\* before it was build(), and the builder set aside
Snapshot == [builder |-> builder, built |-> Held, other |-> other]

\* a place of the builder that holds a reference to an array: a field, or the
\* value of the index-th condition of a field
Place(field, index) == [field |-> field, index |-> index]

\* the places that hold an array of the caller once the call has returned:
\* select and groupBy keep a non-empty array they are given, the where and
\* having families keep the value they are given
Kept(call) ==
    IF call.m = "select"
    THEN IF isArray(call.value) /\ Len(call.value.v) > 0
         THEN shared \cup {Place("selectFields", 0)}
         ELSE shared \ {Place("selectFields", 0)}
    ELSE IF call.m = "groupBy"
    THEN IF isArray(call.value) /\ Len(call.value.v) > 0
         THEN shared \cup {Place("groupByFields", 0)}
         ELSE shared \ {Place("groupByFields", 0)}
    ELSE IF call.m \in {"where", "andWhere", "orWhere"} /\ isArray(call.value)
    THEN shared \cup {Place("whereConditions", Len(whereConditions) + 1)}
    ELSE IF call.m \in {"having", "andHaving", "orHaving"} /\ isArray(call.value)
    THEN shared \cup {Place("havingConditions", Len(havingConditions) + 1)}
    ELSE shared

\* a call that threw: no field of the builder is assigned
Thrown(call, e) ==
    /\ last' = [call |-> call, outcome |-> Throw(e)]
    /\ previous' = Snapshot
    /\ sent' = NoTraffic
    /\ UNCHANGED <<builder, calls, shared, other, inflight>>

\* a mutator that returned this
Returned(call) ==
    /\ last' = [call |-> call, outcome |-> ReturnsThis]
    /\ previous' = Snapshot
    /\ sent' = NoTraffic
    /\ calls' = Append(calls, call)
    /\ shared' = Kept(call)
    /\ UNCHANGED <<other, inflight>>

\* the object literal pushed by where, andWhere and orWhere
StructuredCondition(column, operator, value, logicalOperator) ==
    [column |-> column, operator |-> operator, value |-> value,
     logicalOperator |-> logicalOperator, isRaw |-> FALSE, rawCondition |-> EMPTY]

\* the object literal pushed by whereRaw, andWhereRaw and orWhereRaw
RawCondition(condition, logicalOperator) ==
    [column |-> EMPTY, operator |-> OpEq, value |-> Null,
     logicalOperator |-> logicalOperator, isRaw |-> TRUE, rawCondition |-> condition]

\* the object literal pushed by having, andHaving and orHaving
HavingCondition(column, operator, value, logicalOperator) ==
    [column |-> column, operator |-> operator, value |-> value,
     logicalOperator |-> logicalOperator]

bind(client, resourceId) ==
    /\ clientBinding' = [t |-> "object", v |-> [client |-> client, resourceId |-> resourceId]]
    /\ last' = [call |-> Call("bind", EMPTY, EMPTY, Str(resourceId)), outcome |-> ReturnsThis]
    /\ previous' = Snapshot
    /\ sent' = NoTraffic
    /\ UNCHANGED <<calls, shared, other, inflight>>
    /\ UNCHANGED <<selectFields, whereConditions, orderByConditions, groupByFields,
                   havingConditions, limitValue, offsetValue>>

\* a select that keeps the earlier selection when it is given an empty array
select_KeepOnEmpty(fields) ==
    /\ selectFields' = IF isArray(fields)
                       THEN (IF Len(fields.v) > 0 THEN fields ELSE selectFields)
                       ELSE Arr(<<fields.v>>)
    /\ Returned(Call("select", EMPTY, EMPTY, fields))
    /\ UNCHANGED <<whereConditions, orderByConditions, groupByFields,
                   havingConditions, limitValue, offsetValue, clientBinding>>

select(fields) ==
    /\ selectFields' = IF isArray(fields)
                       THEN (IF Len(fields.v) > 0 THEN fields ELSE Null)
                       ELSE Arr(<<fields.v>>)
    /\ Returned(Call("select", EMPTY, EMPTY, fields))
    /\ UNCHANGED <<whereConditions, orderByConditions, groupByFields,
                   havingConditions, limitValue, offsetValue, clientBinding>>

\* a where without the rewrite of = null and != null
where_NoRewrite(column, operator, value) ==
    LET call == Call("where", column, operator, value) IN
    IF ~validateOperator(operator) THEN Thrown(call, InvalidOperator)
    ELSE /\ whereConditions' =
                Append(whereConditions, StructuredCondition(column, operator, value, AND))
         /\ Returned(call)
         /\ UNCHANGED <<selectFields, orderByConditions, groupByFields,
                        havingConditions, limitValue, offsetValue, clientBinding>>

where(column, operator, value) ==
    LET call == Call("where", column, operator, value) IN
    IF ~validateOperator(operator) THEN Thrown(call, InvalidOperator)
    ELSE LET finalOperator ==
                 IF operator = OpEq /\ value.t = "null" THEN OpIsNull
                 ELSE IF operator = OpNe /\ value.t = "null" THEN OpIsNotNull
                 ELSE operator
         IN /\ whereConditions' =
                   Append(whereConditions,
                          StructuredCondition(column, finalOperator, value, AND))
            /\ Returned(call)
            /\ UNCHANGED <<selectFields, orderByConditions, groupByFields,
                           havingConditions, limitValue, offsetValue, clientBinding>>

whereRaw(condition) ==
    /\ whereConditions' =
           Append(whereConditions,
                  RawCondition(condition, IF Len(whereConditions) > 0 THEN AND ELSE AND))
    /\ Returned(Call("whereRaw", EMPTY, EMPTY, Str(condition)))
    /\ UNCHANGED <<selectFields, orderByConditions, groupByFields,
                   havingConditions, limitValue, offsetValue, clientBinding>>

andWhere(column, operator, value) ==
    LET call == Call("andWhere", column, operator, value) IN
    IF ~validateOperator(operator) THEN Thrown(call, InvalidOperator)
    ELSE /\ whereConditions' =
                Append(whereConditions, StructuredCondition(column, operator, value, AND))
         /\ Returned(call)
         /\ UNCHANGED <<selectFields, orderByConditions, groupByFields,
                        havingConditions, limitValue, offsetValue, clientBinding>>

andWhereRaw(condition) ==
    /\ whereConditions' = Append(whereConditions, RawCondition(condition, AND))
    /\ Returned(Call("andWhereRaw", EMPTY, EMPTY, Str(condition)))
    /\ UNCHANGED <<selectFields, orderByConditions, groupByFields,
                   havingConditions, limitValue, offsetValue, clientBinding>>

orWhere(column, operator, value) ==
    LET call == Call("orWhere", column, operator, value) IN
    IF ~validateOperator(operator) THEN Thrown(call, InvalidOperator)
    ELSE /\ whereConditions' =
                Append(whereConditions, StructuredCondition(column, operator, value, OR))
         /\ Returned(call)
         /\ UNCHANGED <<selectFields, orderByConditions, groupByFields,
                        havingConditions, limitValue, offsetValue, clientBinding>>

orWhereRaw(condition) ==
    /\ whereConditions' = Append(whereConditions, RawCondition(condition, OR))
    /\ Returned(Call("orWhereRaw", EMPTY, EMPTY, Str(condition)))
    /\ UNCHANGED <<selectFields, orderByConditions, groupByFields,
                   havingConditions, limitValue, offsetValue, clientBinding>>

\* an orderBy that puts the new pair in front of the earlier ones
orderBy_Prepend(column, direction) ==
    LET call == Call("orderBy", column, EMPTY, direction)
        normalizedDirection == normalizeOrderDirection(direction)
    IN IF normalizedDirection.kind = "throw" THEN Thrown(call, normalizedDirection.val)
       ELSE /\ orderByConditions' =
                   <<[column |-> column, direction |-> normalizedDirection.val]>>
                       \o orderByConditions
            /\ Returned(call)
            /\ UNCHANGED <<selectFields, whereConditions, groupByFields,
                           havingConditions, limitValue, offsetValue, clientBinding>>

orderBy(column, direction) ==
    LET call == Call("orderBy", column, EMPTY, direction)
        normalizedDirection == normalizeOrderDirection(direction)
    IN IF normalizedDirection.kind = "throw" THEN Thrown(call, normalizedDirection.val)
       ELSE /\ orderByConditions' =
                   Append(orderByConditions,
                          [column |-> column, direction |-> normalizedDirection.val])
            /\ Returned(call)
            /\ UNCHANGED <<selectFields, whereConditions, groupByFields,
                           havingConditions, limitValue, offsetValue, clientBinding>>

groupBy(columns) ==
    /\ groupByFields' = IF isArray(columns)
                        THEN (IF Len(columns.v) > 0 THEN columns ELSE Null)
                        ELSE Arr(<<columns.v>>)
    /\ Returned(Call("groupBy", EMPTY, EMPTY, columns))
    /\ UNCHANGED <<selectFields, whereConditions, orderByConditions,
                   havingConditions, limitValue, offsetValue, clientBinding>>

\* a having that rewrites = null and != null as where does
having_Rewrite(column, operator, value) ==
    LET call == Call("having", column, operator, value) IN
    IF ~validateOperator(operator) THEN Thrown(call, InvalidOperator)
    ELSE LET finalOperator ==
                 IF operator = OpEq /\ value.t = "null" THEN OpIsNull
                 ELSE IF operator = OpNe /\ value.t = "null" THEN OpIsNotNull
                 ELSE operator
         IN /\ havingConditions' =
                   Append(havingConditions,
                          HavingCondition(column, finalOperator, value, AND))
            /\ Returned(call)
            /\ UNCHANGED <<selectFields, whereConditions, orderByConditions, groupByFields,
                           limitValue, offsetValue, clientBinding>>

having(column, operator, value) ==
    LET call == Call("having", column, operator, value) IN
    IF ~validateOperator(operator) THEN Thrown(call, InvalidOperator)
    ELSE /\ havingConditions' =
                Append(havingConditions, HavingCondition(column, operator, value, AND))
         /\ Returned(call)
         /\ UNCHANGED <<selectFields, whereConditions, orderByConditions, groupByFields,
                        limitValue, offsetValue, clientBinding>>

andHaving(column, operator, value) ==
    LET call == Call("andHaving", column, operator, value) IN
    IF ~validateOperator(operator) THEN Thrown(call, InvalidOperator)
    ELSE /\ havingConditions' =
                Append(havingConditions, HavingCondition(column, operator, value, AND))
         /\ Returned(call)
         /\ UNCHANGED <<selectFields, whereConditions, orderByConditions, groupByFields,
                        limitValue, offsetValue, clientBinding>>

orHaving(column, operator, value) ==
    LET call == Call("orHaving", column, operator, value) IN
    IF ~validateOperator(operator) THEN Thrown(call, InvalidOperator)
    ELSE /\ havingConditions' =
                Append(havingConditions, HavingCondition(column, operator, value, OR))
         /\ Returned(call)
         /\ UNCHANGED <<selectFields, whereConditions, orderByConditions, groupByFields,
                        limitValue, offsetValue, clientBinding>>

\* a limit that resets the offset
limit_ClearsOffset(count) ==
    /\ limitValue' = Num(count)
    /\ offsetValue' = Null
    /\ Returned(Call("limit", EMPTY, EMPTY, Num(count)))
    /\ UNCHANGED <<selectFields, whereConditions, orderByConditions, groupByFields,
                   havingConditions, clientBinding>>

limit(count) ==
    /\ limitValue' = Num(count)
    /\ Returned(Call("limit", EMPTY, EMPTY, Num(count)))
    /\ UNCHANGED <<selectFields, whereConditions, orderByConditions, groupByFields,
                   havingConditions, offsetValue, clientBinding>>

offset(count) ==
    /\ offsetValue' = Num(count)
    /\ Returned(Call("offset", EMPTY, EMPTY, Num(count)))
    /\ UNCHANGED <<selectFields, whereConditions, orderByConditions, groupByFields,
                   havingConditions, limitValue, clientBinding>>

\* a build() that consumes the where conditions it rendered
Build_Consuming ==
    /\ last' = [call |-> Call("build", EMPTY, EMPTY, Null), outcome |-> build]
    /\ previous' = Snapshot
    /\ sent' = NoTraffic
    /\ whereConditions' = <<>>
    /\ UNCHANGED <<selectFields, orderByConditions, groupByFields, havingConditions,
                   limitValue, offsetValue, clientBinding, calls, shared, other, inflight>>

\* a caller reads build()
Build ==
    /\ last' = [call |-> Call("build", EMPTY, EMPTY, Null), outcome |-> build]
    /\ previous' = Snapshot
    /\ sent' = NoTraffic
    /\ UNCHANGED <<builder, calls, shared, other, inflight>>

\* the caller changes an array it passed to the builder and still holds: it
\* pushes one more element, or empties it
Modify(place, change) ==
    LET changed(array) ==
            IF change = "push"
            THEN Arr(Append(array.v, IF place.index = 0 THEN <<"z">> ELSE Num(0)))
            ELSE Arr(<<>>)
    IN /\ place \in shared
       /\ selectFields' = IF place.field = "selectFields" THEN changed(selectFields)
                          ELSE selectFields
       /\ groupByFields' = IF place.field = "groupByFields" THEN changed(groupByFields)
                           ELSE groupByFields
       /\ whereConditions' =
              IF place.field = "whereConditions"
              THEN [whereConditions EXCEPT ![place.index].value = changed(@)]
              ELSE whereConditions
       /\ havingConditions' =
              IF place.field = "havingConditions"
              THEN [havingConditions EXCEPT ![place.index].value = changed(@)]
              ELSE havingConditions
       /\ last' = [call |-> Call("caller", EMPTY, EMPTY, Null), outcome |-> Undefined]
       /\ previous' = Snapshot
       /\ sent' = NoTraffic
       /\ UNCHANGED <<orderByConditions, limitValue, offsetValue, clientBinding, calls,
                      shared, other, inflight>>

\* a caller runs execute() and awaits it; fetch, if called, settles with fetched
Execute(fetched) ==
    \E settled \in {execute(fetched)} :
    /\ last' = [call |-> Call("execute", EMPTY, EMPTY, Null), outcome |-> settled.outcome]
    /\ previous' = Snapshot
    /\ sent' = settled.sent
    /\ UNCHANGED <<builder, calls, shared, other, inflight>>

----------------------------------------------------------------------------
(* new QueryBuilder() *)

\* the fields of a builder as its constructor leaves them
Fresh == <<Null, <<>>, <<>>, Null, <<>>, Null, Null, Null>>

\* no second builder
NoBuilder == [t |-> "null", builder |-> Fresh, calls |-> <<>>, shared |-> {},
              built |-> Undefined]

Init ==
    /\ selectFields = Null
    /\ whereConditions = <<>>
    /\ orderByConditions = <<>>
    /\ groupByFields = Null
    /\ havingConditions = <<>>
    /\ limitValue = Null
    /\ offsetValue = Null
    /\ clientBinding = Null
    /\ calls = <<>>
    /\ last = [call |-> Call("new", EMPTY, EMPTY, Null), outcome |-> ReturnsThis]
    /\ sent = NoTraffic
    /\ shared = {}
    /\ other = NoBuilder
    /\ inflight = <<>>
    /\ previous = [builder |-> builder, built |-> Undefined, other |-> other]

----------------------------------------------------------------------------
(* The callers' arguments *)

Alphabet == {"a", "'"}

\* the strings over Alphabet of at most n characters
Strings(n) == UNION {[1..k -> Alphabet] : k \in 0..n}

\* the arrays over elements of at most n elements
Arrays(elements, n) == UNION {[1..k -> elements] : k \in 0..n}

Numbers == {0 - 12, 0, 7, 305}

Clients == {"client"}
ResourceIds == {<<"r", "1">>, <<"r", "2">>}
Columns == {<<"x">>, <<"n", "o">>}

\* strings that validateOperator rejects
UnsupportedOperators == {<<"l", "i", "k", "e">>, <<"<", ">">>, <<"=", " ">>, EMPTY}

SupportedOperators == {validOperators[i] : i \in 1..Len(validOperators)}

ScalarValues ==
    {Null, Bool(TRUE), Bool(FALSE)}
        \cup {Num(n) : n \in Numbers}
        \cup {Str(s) : s \in Strings(MaxStrLen)}

ArrayValues ==
    {Arr(a) : a \in Arrays({Num(0 - 3), Num(10)}, MaxArrLen)}
        \cup {Arr(a) : a \in Arrays({Str(<<"a", "'">>), Str(<<"b">>)}, MaxArrLen)}

Values == ScalarValues \cup ArrayValues

Statuses == {200, 404, 503}

\* the reason phrase a status comes with
StatusText(status) ==
    CASE status = 200 -> <<"O", "K">>
      [] status = 404 -> <<"N", "o", "t", " ", "F", "o", "u", "n", "d">>
      [] OTHER -> EMPTY

Bodies ==
    {JsonBody(Arr(<<>>)), JsonBody(Arr(<<Num(1), Num(2)>>)),
     JsonBody(Obj(<<<<<<"e">>, 1>>>>)), JsonBody(Num(7)),
     TextBody(<<"<", "p", ">">>), TextBody(EMPTY)}

Responses == {Response(status, StatusText(status), body) : status \in Statuses, body \in Bodies}

\* the rejection of fetch when its signal is aborted
Aborted == FetchError("AbortError", <<"a", "b", "o", "r", "t", "e", "d">>)

\* what fetch can settle with for a client: a response, an abort by the client's
\* timer (when a timeout is configured), a network fault, a thrown non-Error
FetchOutcomes(client) ==
    Responses
        \cup (IF state(client).timeout # 0 THEN {Aborted} ELSE {})
        \cup {FetchError("TypeError", <<"f", "a", "i", "l", "e", "d">>),
              FetchNonError(<<"o", "o", "p", "s">>)}

\* a 200 response with one row
OkResponse == Response(200, StatusText(200), JsonBody(Arr(<<Num(1)>>)))

----------------------------------------------------------------------------
(* One structured condition on a fresh builder, over every operator and value *)

NextFormat ==
    \/ \E client \in Clients, resourceId \in ResourceIds : bind(client, resourceId)
    \/ /\ calls = <<>>
       /\ \E column \in Columns, operator \in SupportedOperators, value \in Values :
              \/ where(column, operator, value)
              \/ andWhere(column, operator, value)
              \/ orWhere(column, operator, value)
              \/ having(column, operator, value)
              \/ andHaving(column, operator, value)
              \/ orHaving(column, operator, value)
    \/ Build
    \/ Execute(OkResponse)

SpecFormat == Init /\ [][NextFormat]_vars

----------------------------------------------------------------------------
(* Sequences of where-family calls *)

SequenceOperators == {OpEq, OpNe, OpIsNull, OpIn}
SequenceValues == {Null, Arr(<<Num(10)>>)}
RawConditions == {EMPTY, <<"r">>}

NextWhere ==
    \/ /\ Len(calls) < MaxCalls
       /\ \E operator \in SequenceOperators, value \in SequenceValues :
              \/ where(<<"x">>, operator, value)
              \/ andWhere(<<"x">>, operator, value)
              \/ orWhere(<<"x">>, operator, value)
    \/ /\ Len(calls) < MaxCalls
       /\ \E condition \in RawConditions :
              \/ whereRaw(condition)
              \/ andWhereRaw(condition)
              \/ orWhereRaw(condition)
    \/ Build

SpecWhere == Init /\ [][NextWhere]_vars

----------------------------------------------------------------------------
(* Calls with supported and unsupported operators on a builder that holds state *)

NextReject ==
    \/ /\ Len(calls) < MaxCalls
       /\ \/ select(Str(<<"a">>))
          \/ limit(5)
    \/ \E operator \in {OpEq} \cup UnsupportedOperators :
           /\ validateOperator(operator) => Len(calls) < MaxCalls
           /\ \/ where(<<"x">>, operator, Num(7))
              \/ andWhere(<<"x">>, operator, Num(7))
              \/ orWhere(<<"x">>, operator, Num(7))
              \/ having(<<"x">>, operator, Num(7))
              \/ andHaving(<<"x">>, operator, Num(7))
              \/ orHaving(<<"x">>, operator, Num(7))
    \/ Build

SpecReject == Init /\ [][NextReject]_vars

----------------------------------------------------------------------------
(* Sequences of orderBy calls, over directions of every kind *)

Directions ==
    {NoDirection, Str(EMPTY), Str(<<"a", "s", "c">>), Str(<<"D", "E", "S", "C">>),
     Str(<<"D", "e", "s", "c">>), Str(<<"u", "p">>)}

NextOrder ==
    \/ \E column \in Columns, direction \in Directions :
           /\ normalizeOrderDirection(direction).kind # "throw" => Len(calls) < MaxCalls
           /\ orderBy(column, direction)
    \/ Build

SpecOrder == Init /\ [][NextOrder]_vars

----------------------------------------------------------------------------
(* Sequences of having-family calls *)

HavingOperators == {OpEq, OpNe, OpIsNull, OpIn, <<"i", "n">>}

NextHaving ==
    \/ \E operator \in HavingOperators, value \in SequenceValues :
           /\ validateOperator(operator) => Len(calls) < MaxCalls
           /\ \/ having(<<"x">>, operator, value)
              \/ andHaving(<<"x">>, operator, value)
              \/ orHaving(<<"x">>, operator, value)
    \/ Build

SpecHaving == Init /\ [][NextHaving]_vars

----------------------------------------------------------------------------
(* A bound or unbound builder executed against every outcome of fetch *)

Counts == {0 - 4, 0, 5}

\* a response that is not a success
NotFound == Response(404, StatusText(404), JsonBody(Obj(<<<<<<"e">>, 1>>>>)))

NextTransport ==
    \/ \E client \in Clients, resourceId \in ResourceIds : bind(client, resourceId)
    \/ /\ Len(calls) < MaxCalls
       /\ \/ \E count \in Counts : limit(count) \/ offset(count)
          \/ select(Str(<<"a">>))
          \/ orWhere(<<"x">>, OpIn, Num(7))
          \/ having(<<"x">>, OpIn, Str(<<"a">>))
    \/ Build
    \/ \E fetched \in {OkResponse, NotFound} : Execute(fetched)

SpecTransport == Init /\ [][NextTransport]_vars

----------------------------------------------------------------------------
(* One query of a bound builder, against every outcome of fetch *)

NextResponse ==
    \/ /\ clientBinding.t = "null"
       /\ \E client \in Clients, resourceId \in ResourceIds : bind(client, resourceId)
    \/ /\ calls = <<>>
       /\ \/ select(Str(<<"a">>))
          \/ limit(0)
          \/ offset(5)
    \/ /\ clientBinding.t # "null"
       /\ \E fetched \in FetchOutcomes(clientBinding.v.client) : Execute(fetched)

SpecResponse == Init /\ [][NextResponse]_vars

----------------------------------------------------------------------------
(* execute(), step by step *)

\* an execute() call suspended at await fetch(...): the client and the arguments
\* of executeQuery, the URL given to fetch, and the builder at the invocation
Flight(client, resourceId, queryParams) ==
    [client |-> client, resourceId |-> resourceId, queryParams |-> queryParams,
     url |-> buildQueryUrl(client, resourceId, queryParams), held |-> builder,
     phase |-> "fetching", aborted |-> FALSE,
     response |-> Response(0, EMPTY, TextBody(EMPTY))]

\* execute() is invoked and runs to its first suspension: the binding check,
\* build(), then executeQuery up to await fetch(...); a failure before that
\* settles the promise at once
Invoke ==
    \E queryParams \in {IF clientBinding.t = "null" THEN Throw(NotBound) ELSE build} :
        IF queryParams.kind = "throw"
        THEN Execute(OkResponse)
        ELSE /\ inflight' = Append(inflight,
                                   Flight(clientBinding.v.client,
                                          clientBinding.v.resourceId, queryParams.val))
             /\ last' = [call |-> Call("execute", EMPTY, EMPTY, Null),
                         outcome |-> Undefined]
             /\ previous' = Snapshot
             /\ sent' = NoTraffic
             /\ UNCHANGED <<builder, calls, shared, other>>

\* setTimeout(() => controller.abort(), this.state.timeout): the timer of the
\* i-th suspended call expires
TimerExpires(i) ==
    /\ state(inflight[i].client).timeout # 0
    /\ ~inflight[i].aborted
    /\ inflight' = [inflight EXCEPT ![i].aborted = TRUE]
    /\ UNCHANGED <<builder, calls, shared, other, last, previous, sent>>

\* the promise of the i-th suspended call settles as executeQuery does when
\* fetch has settled with fetched
Settle(i, fetched) ==
    \E called \in {executeQuery(inflight[i].client, inflight[i].resourceId,
                                inflight[i].queryParams, fetched)} :
        /\ inflight' = [j \in 1..(Len(inflight) - 1) |->
                           IF j < i THEN inflight[j] ELSE inflight[j + 1]]
        /\ last' = [call |-> Call("settle", EMPTY, EMPTY, Null),
                    outcome |-> called.outcome]
        /\ previous' = Snapshot
        /\ sent' = [executeQuery |->
                        <<Delegated(inflight[i].client, inflight[i].resourceId,
                                    inflight[i].queryParams, called.outcome)>>,
                    fetch |-> called.fetch]
        /\ UNCHANGED <<builder, calls, shared, other>>

\* a mutant of FetchSettles: the request is rendered again from the builder when
\* the response arrives
FetchSettles_Renders(i, fetched) ==
    /\ inflight[i].phase = "fetching"
    /\ inflight[i].aborted <=> fetched = Aborted
    /\ IF fetched.kind = "response"
       THEN \E queryParams \in {build} :
                /\ inflight' =
                       [inflight EXCEPT ![i].phase = "decoding", ![i].response = fetched,
                                        ![i].queryParams = queryParams.val,
                                        ![i].url = buildQueryUrl(inflight[i].client,
                                                                 inflight[i].resourceId,
                                                                 queryParams.val)]
                /\ UNCHANGED <<builder, calls, shared, other, last, previous, sent>>
       ELSE Settle(i, fetched)

\* await fetch(url, ...) of the i-th suspended call settles: with a rejection
\* named AbortError when the signal is aborted, else with a response, whose body
\* is then awaited, or with a fault
FetchSettles(i, fetched) ==
    /\ inflight[i].phase = "fetching"
    /\ inflight[i].aborted <=> fetched = Aborted
    /\ IF fetched.kind = "response"
       THEN /\ inflight' = [inflight EXCEPT ![i].phase = "decoding",
                                            ![i].response = fetched]
            /\ UNCHANGED <<builder, calls, shared, other, last, previous, sent>>
       ELSE Settle(i, fetched)

\* await response.json() of the i-th suspended call settles: the body read, or
\* a rejection named AbortError when the signal was aborted while it was read
BodySettles(i) ==
    /\ inflight[i].phase = "decoding"
    /\ Settle(i, [inflight[i].response EXCEPT
                      !.body = IF inflight[i].aborted THEN AbortedBody ELSE @])

\* a client with a timeout and one without
AsyncClients == {"client", "untimed"}

\* what fetch settles with here: a 200, a 404, the abort, a network fault
AsyncOutcomes ==
    {OkResponse, Response(404, StatusText(404), JsonBody(Obj(<<<<<<"e">>, 1>>>>))), Aborted,
     FetchError("TypeError", <<"f", "a", "i", "l", "e", "d">>)}

NextAsync ==
    \/ /\ clientBinding.t = "null"
       /\ \E client \in AsyncClients : bind(client, <<"r", "1">>)
    \/ /\ Len(calls) < MaxCalls
       /\ \E count \in {0, 5} : limit(count)
    \/ /\ Len(inflight) < MaxInFlight
       /\ Invoke
    \/ \E i \in 1..Len(inflight) : TimerExpires(i)
    \/ \E i \in 1..Len(inflight), fetched \in AsyncOutcomes : FetchSettles(i, fetched)
    \/ \E i \in 1..Len(inflight) : BodySettles(i)

SpecAsync == Init /\ [][NextAsync]_vars

----------------------------------------------------------------------------
(* Several builders *)

\* the builder the caller was using, as it is set aside
Aside == [t |-> "builder", builder |-> builder, calls |-> calls, shared |-> shared,
          built |-> Held]

\* the caller works with the fields of another builder
Use(fields) ==
    /\ selectFields' = fields[1]
    /\ whereConditions' = fields[2]
    /\ orderByConditions' = fields[3]
    /\ groupByFields' = fields[4]
    /\ havingConditions' = fields[5]
    /\ limitValue' = fields[6]
    /\ offsetValue' = fields[7]
    /\ clientBinding' = fields[8]

\* a mutant of query: the new builder starts from the clause state of the
\* builder in use
query_SharedState(client, resourceId) ==
    /\ Use([builder EXCEPT ![8] = [t |-> "object",
                                   v |-> [client |-> client, resourceId |-> resourceId]]])
    /\ calls' = <<>>
    /\ shared' = {}
    /\ other' = Aside
    /\ last' = [call |-> Call("query", resourceId, EMPTY, Null), outcome |-> ReturnsThis]
    /\ previous' = Snapshot
    /\ sent' = NoTraffic
    /\ UNCHANGED inflight

\* client.query(resourceId): a new QueryBuilder, bound to the client and the
\* resource; the caller goes on with it and keeps the builder it was using
query(client, resourceId) ==
    /\ Use([Fresh EXCEPT ![8] = [t |-> "object",
                                 v |-> [client |-> client, resourceId |-> resourceId]]])
    /\ calls' = <<>>
    /\ shared' = {}
    /\ other' = Aside
    /\ last' = [call |-> Call("query", resourceId, EMPTY, Null), outcome |-> ReturnsThis]
    /\ previous' = Snapshot
    /\ sent' = NoTraffic
    /\ UNCHANGED inflight

\* the caller turns to the builder it had set aside
Turn ==
    /\ other.t = "builder"
    /\ Use(other.builder)
    /\ calls' = other.calls
    /\ shared' = other.shared
    /\ other' = Aside
    /\ last' = [call |-> Call("turn", EMPTY, EMPTY, Null), outcome |-> Undefined]
    /\ previous' = [builder |-> builder, built |-> other.built, other |-> other]
    /\ sent' = NoTraffic
    /\ UNCHANGED inflight

NextInstances ==
    \/ \E resourceId \in ResourceIds : query("client", resourceId)
    \/ Turn
    \/ /\ Len(calls) < MaxCalls
       /\ \/ select(Str(<<"a">>))
          \/ where(<<"x">>, OpEq, Num(7))
          \/ limit(5)
    \/ Build
    \/ Execute(OkResponse)

SpecInstances == Init /\ [][NextInstances]_vars

----------------------------------------------------------------------------
(* The caller keeps and changes the arrays it passes *)

Changes == {"push", "empty"}

NextAlias ==
    \/ /\ Len(calls) < MaxCalls
       /\ \/ \E fields \in {Str(<<"a">>), Arr(<<<<"a">>>>)} : select(fields)
          \/ groupBy(Arr(<<<<"a">>>>))
          \/ where(<<"x">>, OpIn, Arr(<<Num(10)>>))
          \/ orHaving(<<"x">>, OpIn, Arr(<<Num(10)>>))
          \/ limit(5)
    \/ \E place \in shared, change \in Changes :
           /\ change = "push" =>
                  Len(IF place.field = "selectFields" THEN selectFields.v
                      ELSE IF place.field = "groupByFields" THEN groupByFields.v
                      ELSE IF place.field = "whereConditions"
                      THEN whereConditions[place.index].value.v
                      ELSE havingConditions[place.index].value.v) < MaxArrLen
           /\ Modify(place, change)
    \/ Build

SpecAlias == Init /\ [][NextAlias]_vars

----------------------------------------------------------------------------
(* Every call of the builder *)

Next ==
    \/ \E client \in Clients, resourceId \in ResourceIds : bind(client, resourceId)
    \/ /\ Len(calls) < MaxCalls
       /\ \E fields \in {Str(EMPTY), Arr(<<>>), Arr(<<<<"a">>, <<"b">>>>)} : select(fields)
    \/ /\ Len(calls) < MaxCalls
       /\ \/ where(<<"x">>, OpEq, Num(7))
          \/ andWhere(<<"x">>, OpEq, Null)
          \/ orWhere(<<"x">>, OpIn, Num(7))
    \/ /\ Len(calls) < MaxCalls
       /\ \E condition \in RawConditions :
              \/ whereRaw(condition)
              \/ andWhereRaw(condition)
              \/ orWhereRaw(condition)
    \/ \E direction \in {NoDirection, Str(<<"d", "e", "S", "C">>), Str(<<"u", "p">>)} :
           /\ normalizeOrderDirection(direction).kind # "throw" => Len(calls) < MaxCalls
           /\ orderBy(<<"x">>, direction)
    \/ /\ Len(calls) < MaxCalls
       /\ \E columns \in {Str(EMPTY), Arr(<<>>), Arr(<<<<"a">>>>)} : groupBy(columns)
    \/ /\ Len(calls) < MaxCalls
       /\ \/ having(<<"x">>, OpGt, Num(7))
          \/ andHaving(<<"x">>, OpEq, Null)
          \/ orHaving(<<"x">>, OpIn, Arr(<<Num(10)>>))
    \/ /\ Len(calls) < MaxCalls
       /\ \E count \in {0, 5} : limit(count) \/ offset(count)
    \/ Build
    \/ Execute(OkResponse)

Spec == Init /\ [][Next]_vars

----------------------------------------------------------------------------
(* Vocabulary of the properties *)

WhereFamily == {"where", "andWhere", "orWhere"}
RawFamily == {"whereRaw", "andWhereRaw", "orWhereRaw"}
HavingFamily == {"having", "andHaving", "orHaving"}

IsScalar(value) == value.t \in {"string", "number", "boolean", "null"}

\* build() has just been read, after exactly one clause mutator call
BuiltAfterOne == last.call.m = "build" /\ Len(calls) = 1

\* build() has just returned a mapping that holds key k with value s
Built(k, s) ==
    /\ last.call.m = "build"
    /\ last.outcome.kind = "value"
    /\ k \in DOMAIN last.outcome.val
    /\ last.outcome.val[k] = s

\* the key a call's condition is rendered under
ClauseKey(call) == IF call.m \in HavingFamily THEN "$having" ELSE "$where"

\* the number of single quotes in s
RECURSIVE Quotes(_)
Quotes(s) ==
    IF s = <<>> THEN 0 ELSE (IF Head(s) = "'" THEN 1 ELSE 0) + Quotes(Tail(s))

\* s with every single quote written twice, from the right
RECURSIVE Doubled(_)
Doubled(s) ==
    IF s = <<>> THEN <<>>
    ELSE Doubled(SubSeq(s, 1, Len(s) - 1))
             \o (IF s[Len(s)] = "'" THEN <<"'", "'">> ELSE <<s[Len(s)]>>)

\* s is prefix followed by rest
SplitsAs(s, prefix, rest) == s = prefix \o rest

\* the text of s after its first n characters
After(s, n) == SubSeq(s, n + 1, Len(s))

----------------------------------------------------------------------------
(* C1 *)

\* C1, as stated: for every operator of the closed set and every scalar value, a
\* single where(column, operator, value) on an empty builder makes build().$where
\* equal to "<column> <operator> <formatValue(value)>".
C1_WhereRendersOperatorAndValue ==
    (BuiltAfterOne /\ calls[1].m = "where" /\ IsScalar(calls[1].value))
        => Built("$where", calls[1].column \o SP \o calls[1].operator \o SP
                               \o formatValue(calls[1].value))

\* C1, amended: the same for the operators =, !=, <, >, <=, >=, LIKE with a scalar
\* value, except = and != with null; IS NULL and IS NOT NULL, and = and != with
\* null (rewritten to them), render "<column> <operator>" with no value; IN with a
\* scalar value makes build() fail with InvalidInValue.
C1_WhereRendersByOperator ==
    (BuiltAfterOne /\ calls[1].m = "where" /\ IsScalar(calls[1].value))
        => LET c == calls[1] IN
           IF c.operator = OpIsNull \/ (c.operator = OpEq /\ c.value = Null)
           THEN Built("$where", c.column \o SP \o OpIsNull)
           ELSE IF c.operator = OpIsNotNull \/ (c.operator = OpNe /\ c.value = Null)
           THEN Built("$where", c.column \o SP \o OpIsNotNull)
           ELSE IF c.operator = OpIn
           THEN last.outcome = Throw(InvalidInValue)
           ELSE Built("$where", c.column \o SP \o c.operator \o SP \o formatValue(c.value))

C1_Witness ==
    /\ BuiltAfterOne
    /\ calls[1] = Call("where", <<"x">>, OpGt, Num(305))
    /\ Built("$where", <<"x", " ", ">", " ", "3", "0", "5">>)

----------------------------------------------------------------------------
(* C2 *)

\* C2: andWhere and orWhere rewrite equality with null as where does:
\* andWhere(x,'=',null) and orWhere(x,'=',null) render as "x IS NULL", and with
\* '!=' as "x IS NOT NULL".
C2_AndOrWhereRewriteNull ==
    (BuiltAfterOne /\ calls[1].m \in {"andWhere", "orWhere"} /\ calls[1].value = Null)
        => /\ calls[1].operator = OpEq
                  => Built("$where", calls[1].column \o SP \o OpIsNull)
           /\ calls[1].operator = OpNe
                  => Built("$where", calls[1].column \o SP \o OpIsNotNull)

----------------------------------------------------------------------------
(* C7 *)

\* the operator IN was given a value that is not a sequence
InScalar(call) ==
    /\ call.m \in WhereFamily \cup HavingFamily
    /\ call.operator = OpIn
    /\ ~isArray(call.value)

\* the condition sequence a call appends to
ConditionsOf(call) ==
    IF call.m \in HavingFamily THEN havingConditions ELSE whereConditions

\* a where-family or having-family call with IN and a non-sequence value returned
\* and appended its condition
InScalarAccepted ==
    (InScalar(last.call))
        => /\ last.outcome = ReturnsThis
           /\ calls # <<>> /\ calls[Len(calls)] = last.call
           /\ LET conditions == ConditionsOf(last.call) IN
              /\ conditions # <<>>
              /\ conditions[Len(conditions)].operator = OpIn
              /\ conditions[Len(conditions)].value = last.call.value

\* C7, as stated: a where-family or having-family call with IN and a non-sequence
\* value succeeds and appends the condition; InvalidInValue is raised by the next
\* build() or execute().
C7_InScalarFailsAtBuildOrExecute ==
    /\ InScalarAccepted
    /\ (last.call.m \in {"build", "execute"} /\ \E i \in 1..Len(calls) : InScalar(calls[i]))
           => last.outcome = Throw(InvalidInValue)

\* C7, amended: ... InvalidInValue is raised by the next build(), and by the next
\* execute() on a bound builder (on an unbound builder execute() fails with
\* NotBound before it renders).
C7_InScalarFailsAtRender ==
    /\ InScalarAccepted
    /\ (/\ \E i \in 1..Len(calls) : InScalar(calls[i])
        /\ \/ last.call.m = "build"
           \/ last.call.m = "execute" /\ clientBinding # Null)
           => last.outcome = Throw(InvalidInValue)

C7_Witness ==
    /\ calls = <<Call("having", <<"x">>, OpIn, Num(7))>>
    /\ clientBinding # Null
    /\ last.call.m = "execute"
    /\ last.outcome = Throw(InvalidInValue)

----------------------------------------------------------------------------
(* C8 *)

\* the text of one element of an IN list: a number bare, a string quoted
C8_Element(e) ==
    IF e.t = "number" THEN numberToString(e.v) ELSE QUOTE \o Doubled(e.v) \o QUOTE

\* the elements in order, a comma and no space between two of them
RECURSIVE C8_Elements(_)
C8_Elements(a) ==
    IF a = <<>> THEN <<>>
    ELSE C8_Element(a[1])
             \o (IF Len(a) > 1 THEN <<",">> \o C8_Elements(Tail(a)) ELSE <<>>)

\* C8: with operator IN and a sequence value, the condition renders as
\* "<column> IN (<e1>,<e2>,...)": elements in sequence order, joined by ','
\* without spaces, numbers bare, every other element single-quoted with quotes
\* doubled; an empty sequence renders as "()".
C8_InRendersList ==
    (BuiltAfterOne /\ calls[1].operator = OpIn /\ isArray(calls[1].value))
        => LET c == calls[1] IN
           /\ Built(ClauseKey(c),
                    c.column \o <<" ", "I", "N", " ", "(">> \o C8_Elements(c.value.v)
                        \o <<")">>)
           /\ c.value.v = <<>>
                  => Built(ClauseKey(c), c.column \o <<" ", "I", "N", " ", "(", ")">>)

C8_Witness ==
    /\ BuiltAfterOne
    /\ calls[1] = Call("where", <<"x">>, OpIn, Arr(<<Str(<<"a", "'">>), Str(<<"b">>)>>))
    /\ Built("$where", <<"x", " ", "I", "N", " ", "(", "'", "a", "'", "'", "'", ",",
                         "'", "b", "'", ")">>)

----------------------------------------------------------------------------
(* C9 *)

\* the operators whose value is rendered by formatValue for a scalar
C9_ValueOperators == {OpEq, OpNe, OpLt, OpGt, OpLe, OpGe, OpLike}

\* lit is s in single quotes, each quote of s doubled and nothing else changed
C9_QuotedLiteral(lit, s) ==
    /\ Len(lit) = Len(s) + Quotes(s) + 2
    /\ lit[1] = "'" /\ lit[Len(lit)] = "'"
    /\ Quotes(lit) = 2 + 2 * Quotes(s)
    /\ SubSeq(lit, 2, Len(lit) - 1) = Doubled(s)

\* C9: every string value is rendered wrapped in single quotes with each single
\* quote inside it doubled and every other character unchanged, so the literal
\* has exactly 2 + 2k quote characters for a value with k quotes; numbers and
\* booleans are rendered bare.
C9_StringsQuotedOthersBare ==
    (BuiltAfterOne /\ calls[1].operator \in C9_ValueOperators
                   /\ calls[1].value.t \in {"string", "number", "boolean"})
        => LET c == calls[1]
               prefix == c.column \o SP \o c.operator \o SP
           IN /\ last.outcome.kind = "value"
              /\ ClauseKey(c) \in DOMAIN last.outcome.val
              /\ LET text == last.outcome.val[ClauseKey(c)]
                     lit == After(text, Len(prefix))
                 IN /\ SplitsAs(text, prefix, lit)
                    /\ c.value.t = "string" => C9_QuotedLiteral(lit, c.value.v)
                    /\ c.value.t = "number"
                           => Quotes(lit) = 0 /\ lit = numberToString(c.value.v)
                    /\ c.value.t = "boolean"
                           => lit = IF c.value.v THEN <<"t", "r", "u", "e">>
                                    ELSE <<"f", "a", "l", "s", "e">>

C9_Witness ==
    /\ BuiltAfterOne
    /\ calls[1] = Call("orWhere", <<"x">>, OpLike, Str(<<"'", "a">>))
    /\ Built("$where", <<"x", " ", "L", "I", "K", "E", " ", "'", "'", "'", "a", "'">>)

----------------------------------------------------------------------------
(* C3, C4, C5: the conditions of $where, by position *)

IsWhereCall(call) == call.m \in WhereFamily \cup RawFamily

\* the where-family calls that returned, in call order: the k-th one appended
\* whereConditions[k]
WhereCalls == SelectSeq(calls, IsWhereCall)

\* the join token of the call that appended a condition
TokenOf(call) == IF call.m \in {"orWhere", "orWhereRaw"} THEN OR ELSE AND

\* build() has just returned a mapping with a $where
BuiltWhere ==
    /\ last.call.m = "build"
    /\ last.outcome.kind = "value"
    /\ "$where" \in DOMAIN last.outcome.val

\* in the $where just built, seg stands where the k-th of n conditions is
\* expected when it is the first one (at the start, then the end or a space and
\* the next join token) or the last one (at the end, after its own join token)
StandsAt(k, n, seg) ==
    LET text == last.outcome.val["$where"] IN
    /\ (k = 1 /\ n = 1) => text = seg
    /\ (k = 1 /\ n > 1) =>
           /\ Len(text) > Len(seg)
           /\ SubSeq(text, 1, Len(seg) + 1 + Len(TokenOf(WhereCalls[2])) + 1)
                  = seg \o SP \o TokenOf(WhereCalls[2]) \o SP
    /\ (k = n /\ n > 1) =>
           LET tail == SP \o TokenOf(WhereCalls[k]) \o SP \o seg IN
           /\ Len(text) > Len(tail)
           /\ After(text, Len(text) - Len(tail)) = tail

C3_NullEquality(call) ==
    call.m = "where" /\ call.operator \in {OpEq, OpNe} /\ call.value = Null

C3_Operator(call) == IF call.operator = OpEq THEN OpIsNull ELSE OpIsNotNull

\* C3: where(column,'=',null) is stored and rendered as "<column> IS NULL" and
\* where(column,'!=',null) as "<column> IS NOT NULL", with no value token after
\* the operator, at any position in the condition sequence.
C3_WhereNullIsRewritten ==
    \A k \in 1..Len(WhereCalls) :
        C3_NullEquality(WhereCalls[k]) =>
            LET seg == WhereCalls[k].column \o SP \o C3_Operator(WhereCalls[k]) IN
            /\ Len(whereConditions) = Len(WhereCalls)
            /\ whereConditions[k].operator = C3_Operator(WhereCalls[k])
            /\ conditionStr(whereConditions[k]) = Ret(seg)
            /\ BuiltWhere => StandsAt(k, Len(WhereCalls), seg)

C3_Witness ==
    /\ Len(calls) = 2
    /\ calls[1].m = "orWhereRaw" /\ calls[1].value = Str(<<"r">>)
    /\ calls[2] = Call("where", <<"x">>, OpNe, Null)
    /\ Built("$where", <<"r", " ", "A", "N", "D", " ", "x", " ",
                         "I", "S", " ", "N", "O", "T", " ", "N", "U", "L", "L">>)

\* C4: whereRaw, andWhereRaw and orWhereRaw insert the given string verbatim for
\* every string argument: the segment rendered for the condition is exactly the
\* string (after AND, or OR for orWhereRaw, when it is not the first condition),
\* and nothing else is rendered for it.
C4_RawIsVerbatim ==
    \A k \in 1..Len(WhereCalls) :
        WhereCalls[k].m \in RawFamily =>
            /\ Len(whereConditions) = Len(WhereCalls)
            /\ conditionStr(whereConditions[k]) = Ret(WhereCalls[k].value.v)
            /\ BuiltWhere => StandsAt(k, Len(WhereCalls), WhereCalls[k].value.v)

\* the k-th condition as it is rendered on its own
C5_Rendered(k) == conditionStr(whereConditions[k]).val

\* the first n conditions, a join token between two of them, single spaces
RECURSIVE C5_Text(_)
C5_Text(n) ==
    IF n = 1 THEN C5_Rendered(1)
    ELSE C5_Text(n - 1) \o <<" ">> \o TokenOf(WhereCalls[n]) \o <<" ">> \o C5_Rendered(n)

\* C5: after n >= 1 where-family calls, $where is the n rendered conditions in
\* call order separated by single spaces, the k-th (k >= 2) preceded by the join
\* token of the call that appended it, and the first without a leading token,
\* also when andWhere or orWhere appended it.  (When a condition cannot be
\* rendered, build() fails and there is no $where.)
C5_WhereJoinsInCallOrder ==
    (last.call.m = "build" /\ last.outcome.kind = "value" /\ Len(WhereCalls) >= 1)
        => /\ Len(whereConditions) = Len(WhereCalls)
           /\ Built("$where", C5_Text(Len(WhereCalls)))

C5_Witness ==
    /\ Len(calls) = 2
    /\ calls[1] = Call("orWhere", <<"x">>, OpIsNull, Null)
    /\ calls[2] = Call("orWhere", <<"x">>, OpEq, Arr(<<Num(10)>>))
    /\ Built("$where", <<"x", " ", "I", "S", " ", "N", "U", "L", "L", " ", "O", "R", " ",
                         "x", " ", "=", " ", "(", "1", "0", ")">>)

----------------------------------------------------------------------------
(* C6 *)

\* the closed set of comparison operators, as the contract lists it
C6_ClosedSet ==
    {<<"=">>, <<"!", "=">>, <<"<">>, <<">">>, <<"<", "=">>, <<">", "=">>,
     <<"L", "I", "K", "E">>, <<"I", "N">>, <<"I", "S", " ", "N", "U", "L", "L">>,
     <<"I", "S", " ", "N", "O", "T", " ", "N", "U", "L", "L">>}

\* C6: a where-family or having-family call whose operator is outside the closed
\* set (compared exactly, case-sensitively) fails at the call with InvalidOperator
\* and leaves every field of the builder unchanged: build() returns after it what
\* it returned before it (when build() was read right before the call, build()
\* now equals what was read).
C6_UnsupportedOperatorRejected ==
    (/\ last.call.m \in WhereFamily \cup HavingFamily
     /\ last.call.operator \notin C6_ClosedSet)
        => /\ last.outcome = Throw(InvalidOperator)
           /\ builder = previous.builder
           /\ previous.built # Undefined => build = previous.built

C6_Witness ==
    /\ last.call = Call("orHaving", <<"x">>, <<"l", "i", "k", "e">>, Num(7))
    /\ last.outcome = Throw(InvalidOperator)
    /\ Len(whereConditions) = 1 /\ Len(havingConditions) = 1
    /\ previous.built # Undefined
    /\ build = previous.built
    /\ "$where" \in DOMAIN build.val /\ "$having" \in DOMAIN build.val

----------------------------------------------------------------------------
(* C10 *)

StringKeys == {"$select", "$where", "$order", "$group", "$having"}

\* C10: after any sequence of mutator calls build() returns no string-valued key
\* whose value is the empty string, a clause with no contributing state being
\* absent; a builder with no mutator calls builds to the empty mapping.
C10_NoEmptyStringKey ==
    (last.call.m = "build" /\ last.outcome.kind = "value")
        => /\ \A k \in DOMAIN last.outcome.val \cap StringKeys :
                  last.outcome.val[k] # <<>>
           /\ calls = <<>> => DOMAIN last.outcome.val = {}

----------------------------------------------------------------------------
(* C11 *)

\* the position in calls of the last call of mutator m, or 0
LastCallOf(m) ==
    LET at == {i \in 1..Len(calls) : calls[i].m = m} IN
    IF at = {} THEN 0 ELSE CHOOSE i \in at : \A j \in at : j <= i

\* the argument of select or groupBy as a sequence, a single string counting as
\* a one-element sequence
C11_Argument(call) == IF isArray(call.value) THEN call.value.v ELSE <<call.value.v>>

\* the elements in order, a comma between two of them
RECURSIVE C11_Joined(_)
C11_Joined(a) ==
    IF a = <<>> THEN <<>>
    ELSE IF Len(a) = 1 THEN a[1]
    ELSE C11_Joined(SubSeq(a, 1, Len(a) - 1)) \o <<",">> \o a[Len(a)]

\* build() has just returned a mapping
BuiltMapping == last.call.m = "build" /\ last.outcome.kind = "value"

\* key k is the join of the argument of the last call of m, and absent when
\* that argument is the empty sequence
C11_LastArgumentOnly(m, k) ==
    LastCallOf(m) > 0 =>
        LET argument == C11_Argument(calls[LastCallOf(m)]) IN
        IF argument = <<>> THEN k \notin DOMAIN last.outcome.val
        ELSE Built(k, C11_Joined(argument))

\* C11, as stated: after any sequence of calls, $select (resp. $group) is the
\* ','-join, in order, of the argument of the last select (resp. groupBy) call
\* only, a single string counting as a one-element sequence; when that last call
\* passed an empty sequence the key is absent, also when an earlier call had set
\* a non-empty selection.
C11_ReplaceNotAppend ==
    BuiltMapping => /\ C11_LastArgumentOnly("select", "$select")
                    /\ C11_LastArgumentOnly("groupBy", "$group")

\* C11, amended: the same for $select; $group is that join when the join is not
\* the empty string, and is absent when the last groupBy call passed an empty
\* sequence or an argument whose join is the empty string (groupBy('')).
C11_ReplaceNotAppendGroupNonEmpty ==
    BuiltMapping =>
        /\ C11_LastArgumentOnly("select", "$select")
        /\ LastCallOf("groupBy") > 0 =>
               LET text == C11_Joined(C11_Argument(calls[LastCallOf("groupBy")])) IN
               IF text = <<>> THEN "$group" \notin DOMAIN last.outcome.val
               ELSE Built("$group", text)

C11_Witness ==
    /\ BuiltMapping
    /\ Len(calls) = 2
    /\ calls[1] = Call("select", EMPTY, EMPTY, Arr(<<<<"a">>, <<"b">>>>))
    /\ calls[2] = Call("select", EMPTY, EMPTY, Arr(<<>>))
    /\ "$select" \notin DOMAIN last.outcome.val

----------------------------------------------------------------------------
(* C12, C13 *)

IsOrderBy(call) == call.m = "orderBy"

\* the orderBy calls that returned, in call order
OrderCalls == SelectSeq(calls, IsOrderBy)

\* s in upper case, on the letters a direction is spelled with
UpperCased(s) ==
    [i \in 1..Len(s) |->
        CASE s[i] = "a" -> "A"
          [] s[i] = "s" -> "S"
          [] s[i] = "c" -> "C"
          [] s[i] = "d" -> "D"
          [] s[i] = "e" -> "E"
          [] s[i] = "u" -> "U"
          [] s[i] = "p" -> "P"
          [] OTHER -> s[i]]

\* ASC when the direction was omitted, otherwise the upper-cased direction
C12_Direction(call) ==
    IF call.value.t = "undefined" THEN <<"A", "S", "C">> ELSE UpperCased(call.value.v)

\* the pairs of the first n orderBy calls, a comma between two of them
RECURSIVE C12_Text(_)
C12_Text(n) ==
    LET pair == OrderCalls[n].column \o <<" ">> \o C12_Direction(OrderCalls[n]) IN
    IF n = 1 THEN pair ELSE C12_Text(n - 1) \o <<",">> \o pair

\* C12: after any sequence of successful orderBy calls, $order is the
\* "<column> <DIRECTION>" pairs of all calls in call order joined by ',', where
\* DIRECTION is ASC when the direction was omitted and otherwise the upper-cased
\* direction, whatever the input case; DIRECTION is always one of ASC, DESC.
C12_OrderAccumulates ==
    /\ Len(orderByConditions) = Len(OrderCalls)
    /\ \A i \in 1..Len(orderByConditions) :
           orderByConditions[i].direction \in {<<"A", "S", "C">>, <<"D", "E", "S", "C">>}
    /\ (BuiltMapping /\ Len(OrderCalls) >= 1)
           => Built("$order", C12_Text(Len(OrderCalls)))

\* the direction is asc or desc, ignoring case
C13_Names(direction, name) ==
    direction.t = "string" /\ UpperCased(direction.v) = name

\* the order-by sequence is what it was before the call, with one pair appended
C13_Appended(column, name) ==
    /\ last.outcome = ReturnsThis
    /\ orderByConditions = Append(previous.builder[3], [column |-> column, direction |-> name])

\* C13: normalizeOrderDirection (and so orderBy) maps an undefined direction to
\* ASC and a string equal to asc or desc ignoring case to ASC or DESC; every
\* other input fails with InvalidDirection, and the failed orderBy call appends
\* nothing to the order-by sequence.
C13_DirectionNormalizedOrRejected ==
    last.call.m = "orderBy" =>
        LET direction == last.call.value
            column == last.call.column
        IN IF direction.t = "undefined" \/ C13_Names(direction, <<"A", "S", "C">>)
           THEN C13_Appended(column, <<"A", "S", "C">>)
           ELSE IF C13_Names(direction, <<"D", "E", "S", "C">>)
           THEN C13_Appended(column, <<"D", "E", "S", "C">>)
           ELSE /\ last.outcome = Throw(InvalidDirection)
                /\ orderByConditions = previous.builder[3]

----------------------------------------------------------------------------
(* C14 *)

----------------------------------------------------------------------------
(* C15 *)

\* text t stands in s from position i on
OccursAt(s, i, t) == i + Len(t) - 1 <= Len(s) /\ SubSeq(s, i, i + Len(t) - 1) = t

\* the query string of url holds the parameter name=value
UrlHas(url, name, value) ==
    LET t == name \o <<"=">> \o value IN
    \E i \in 1..Len(url) :
        /\ url[i] \in {"?", "&"}
        /\ OccursAt(url, i + 1, t)
        /\ (i + Len(t) = Len(url) \/ url[i + Len(t) + 1] = "&")

\* the query string of url holds a parameter of that name
UrlNames(url, name) ==
    \E i \in 1..Len(url) : url[i] \in {"?", "&"} /\ OccursAt(url, i + 1, name \o <<"=">>)

\* execute() has just sent a request
Requested == last.call.m = "execute" /\ Len(sent.fetch) = 1

\* key k of build() is absent iff m was never called, and otherwise is the
\* argument of the last call of m; the URL requested carries it under name
C15_Verbatim(m, k, name) ==
    LET n == calls[LastCallOf(m)].value.v IN
    /\ BuiltMapping =>
           /\ k \in DOMAIN last.outcome.val <=> LastCallOf(m) > 0
           /\ LastCallOf(m) > 0 => last.outcome.val[k] = n
    /\ Requested =>
           IF LastCallOf(m) > 0
           THEN UrlHas(sent.fetch[1].url, name, numberToString(n))
           ELSE ~UrlNames(sent.fetch[1].url, name)

\* C15: limit(n) and offset(n) store n verbatim with no range validation: $limit
\* (resp. $offset) is absent iff limit (resp. offset) was never called, and
\* otherwise equals the argument of the last call for every integer n, including
\* 0 and negative values; 0 is never treated as unset, neither by build() nor in
\* the URL that executeQuery requests.
C15_LimitOffsetVerbatim ==
    /\ C15_Verbatim("limit", "$limit", <<"%", "2", "4", "l", "i", "m", "i", "t">>)
    /\ C15_Verbatim("offset", "$offset", <<"%", "2", "4", "o", "f", "f", "s", "e", "t">>)

C15_Witness ==
    /\ Requested
    /\ calls = <<Call("limit", EMPTY, EMPTY, Num(0)), Call("offset", EMPTY, EMPTY, Num(0 - 4))>>
    /\ clientBinding.v.resourceId = <<"r", "1">>
    /\ sent.executeQuery[1].queryParams["$limit"] = 0
    /\ sent.fetch[1].url =
           <<"h", "t", "t", "p", "s", ":", "/", "/", "h", "/", "r", "e", "s", "o", "u", "r",
             "c", "e", "/", "r", "1", ".", "j", "s", "o", "n", "?", "%", "2", "4", "l", "i",
             "m", "i", "t", "=", "0", "&", "%", "2", "4", "o", "f", "f", "s", "e", "t", "=",
             "-", "4">>

----------------------------------------------------------------------------
(* C16 *)

\* C16: execute() on a builder that was never bound fails with NotBound and no
\* network request (fetch call) is made, whatever clause state the builder holds.
C16_UnboundExecuteFailsBeforeNetwork ==
    (last.call.m = "execute" /\ clientBinding = Null)
        => /\ last.outcome = Throw(NotBound)
           /\ sent.executeQuery = <<>>
           /\ sent.fetch = <<>>

C16_Witness ==
    /\ last.call.m = "execute" /\ clientBinding = Null
    /\ Len(calls) = 2
    /\ calls[1] = Call("orWhere", <<"x">>, OpIn, Num(7))
    /\ calls[2].m = "limit"
    /\ build = Throw(InvalidInValue)
    /\ last.outcome = Throw(NotBound)
    /\ sent.fetch = <<>>

----------------------------------------------------------------------------
(* C17 *)

\* C17: each execute() on a bound builder whose state renders without failure
\* invokes the transport's executeQuery exactly once, with the bound resource
\* identifier and exactly the mapping build() returns, which issues exactly one
\* GET; execute returns that result unchanged or propagates its failure, never
\* retrying or issuing a second request.
C17_ExecuteDelegatesOnce ==
    (last.call.m = "execute" /\ clientBinding # Null /\ build.kind = "value")
        => /\ Len(sent.executeQuery) = 1
           /\ sent.executeQuery[1].client = clientBinding.v.client
           /\ sent.executeQuery[1].resourceId = clientBinding.v.resourceId
           /\ sent.executeQuery[1].queryParams = build.val
           /\ Len(sent.fetch) = 1
           /\ sent.fetch[1].method = "GET"
           /\ last.outcome = sent.executeQuery[1].result

C17_Witness ==
    /\ last.call.m = "execute" /\ clientBinding # Null
    /\ calls = <<Call("select", EMPTY, EMPTY, Str(<<"a">>)), Call("limit", EMPTY, EMPTY, Num(5))>>
    /\ Len(sent.executeQuery) = 1 /\ Len(sent.fetch) = 1
    /\ sent.fetch[1].fetched.status = 404
    /\ last.outcome.kind = "reject"
    /\ sent.executeQuery[1].queryParams = build.val
    /\ DOMAIN build.val = {"$select", "$limit"}

----------------------------------------------------------------------------
(* C18 *)

IsHavingCall(call) == call.m \in HavingFamily

\* the having-family calls that returned, in call order
HavingCalls == SelectSeq(calls, IsHavingCall)

\* a having condition as the call passed it: the operator as given, no value
\* after IS NULL and IS NOT NULL, null written NULL
C18_Rendered(call) ==
    IF call.operator \in {OpIsNull, OpIsNotNull} THEN call.column \o <<" ">> \o call.operator
    ELSE call.column \o <<" ">> \o call.operator \o <<" ">>
             \o (IF call.value = Null THEN <<"N", "U", "L", "L">>
                 ELSE formatValue(call.value))

\* the first n having conditions, the join token of its call before each but
\* the first
RECURSIVE C18_Text(_)
C18_Text(n) ==
    IF n = 1 THEN C18_Rendered(HavingCalls[1])
    ELSE C18_Text(n - 1) \o <<" ">>
             \o (IF HavingCalls[n].m = "orHaving" THEN <<"O", "R">> ELSE <<"A", "N", "D">>)
             \o <<" ">> \o C18_Rendered(HavingCalls[n])

\* C18: having, andHaving and orHaving validate the operator and place join
\* tokens exactly as the where family does (AND for having/andHaving, OR for
\* orHaving, none before the first condition), but apply no null rewrite:
\* having(x,'=',null) renders as "x = NULL" and having(x,'!=',null) as
\* "x != NULL".
C18_HavingAsWhereWithoutRewrite ==
    /\ (last.call.m \in HavingFamily /\ last.call.operator \notin C6_ClosedSet)
           => /\ last.outcome = Throw(InvalidOperator)
              /\ havingConditions = previous.builder[5]
    /\ (last.call.m \in HavingFamily /\ last.call.operator \in C6_ClosedSet)
           => /\ last.outcome = ReturnsThis
              /\ Len(havingConditions) = Len(previous.builder[5]) + 1
    /\ Len(havingConditions) = Len(HavingCalls)
    /\ \A k \in 1..Len(HavingCalls) :
           havingConditions[k].operator = HavingCalls[k].operator
    /\ (BuiltMapping /\ Len(HavingCalls) >= 1)
           => Built("$having", C18_Text(Len(HavingCalls)))

C18_Witness ==
    /\ BuiltMapping
    /\ calls = <<Call("orHaving", <<"x">>, OpNe, Null), Call("having", <<"x">>, OpEq, Null)>>
    /\ Built("$having", <<"x", " ", "!", "=", " ", "N", "U", "L", "L", " ", "A", "N", "D",
                          " ", "x", " ", "=", " ", "N", "U", "L", "L">>)

----------------------------------------------------------------------------
(* C19 *)

\* C19: the transport binding of a builder is set once: after a bind operation
\* has bound the builder to a (transport, resource identifier) pair, no later
\* operation, including another bind call, changes the pair that execute() uses.
C19_BindingSetOnce ==
    previous.builder[8] # Null => clientBinding = previous.builder[8]

----------------------------------------------------------------------------
(* C20 *)

\* the text of a response body
C20_BodyText(body) == IF body.t = "json" THEN stringify(body.v) ELSE body.v

\* C20: for every non-success HTTP status, executeQuery rejects with an API
\* error that carries the response status and the response body; it never
\* resolves with data and never rejects with a different kind of error for such
\* a response.
C20_NonSuccessRejectsWithStatusAndBody ==
    (/\ Requested
     /\ sent.fetch[1].fetched.kind = "response"
     /\ sent.fetch[1].fetched.status \notin 200..299)
        => LET response == sent.fetch[1].fetched
               head == <<"S", "O", "D", "A", " ", "A", "P", "I", " ", "e", "r", "r", "o",
                         "r", ":", " ">>
                           \o numberToString(response.status) \o <<" ">>
                           \o response.statusText \o <<".", " ">>
           IN /\ last.outcome.kind = "reject"
              /\ sent.executeQuery[1].result = last.outcome
              /\ OccursAt(last.outcome.val, 1, head)
              /\ C20_BodyText(response.body) # <<>>
                     => last.outcome.val = head \o C20_BodyText(response.body)

----------------------------------------------------------------------------
(* C22 *)

\* C22: on a successful response executeQuery resolves to { data: rows } where
\* rows is the decoded body itself when the body is a JSON array (including the
\* empty array) and the one-element sequence [body] when the body is any
\* non-array value.
C22_SuccessWrapsRows ==
    (/\ Requested
     /\ sent.fetch[1].fetched.kind = "response"
     /\ sent.fetch[1].fetched.status \in 200..299
     /\ sent.fetch[1].fetched.body.t = "json")
        => LET body == sent.fetch[1].fetched.body.v IN
           /\ last.outcome.kind = "value"
           /\ DOMAIN last.outcome.val = {"data"}
           /\ body.t = "array" => last.outcome.val.data = body
           /\ body.t # "array" =>
                  /\ last.outcome.val.data.t = "array"
                  /\ last.outcome.val.data.v = <<body>>

C22_Witness ==
    /\ Requested
    /\ sent.fetch[1].fetched.status = 200
    /\ sent.fetch[1].fetched.body = JsonBody(Obj(<<<<<<"e">>, 1>>>>))
    /\ last.outcome = Ret([data |-> Arr(<<Obj(<<<<<<"e">>, 1>>>>)>>)])

----------------------------------------------------------------------------
(* C23 *)

\* the character a percent code stands for
C23_Char(hi, lo) ==
    CASE <<hi, lo>> = <<"2", "1">> -> "!"
      [] <<hi, lo>> = <<"2", "4">> -> "$"
      [] <<hi, lo>> = <<"2", "7">> -> "'"
      [] <<hi, lo>> = <<"2", "8">> -> "("
      [] <<hi, lo>> = <<"2", "9">> -> ")"
      [] <<hi, lo>> = <<"2", "C">> -> ","
      [] <<hi, lo>> = <<"3", "C">> -> "<"
      [] <<hi, lo>> = <<"3", "D">> -> "="
      [] <<hi, lo>> = <<"3", "E">> -> ">"
      [] OTHER -> "?"

\* what a server reads from a name or a value of a query string
RECURSIVE C23_Decoded(_)
C23_Decoded(s) ==
    IF s = <<>> THEN <<>>
    ELSE IF s[1] = "%" /\ Len(s) >= 3
    THEN <<C23_Char(s[2], s[3])>> \o C23_Decoded(SubSeq(s, 4, Len(s)))
    ELSE IF s[1] = "+" THEN <<" ">> \o C23_Decoded(Tail(s))
    ELSE <<s[1]>> \o C23_Decoded(Tail(s))

\* the first position of character c in s, or 0
FirstAt(s, c) ==
    LET at == {i \in 1..Len(s) : s[i] = c} IN
    IF at = {} THEN 0 ELSE CHOOSE i \in at : \A j \in at : i <= j

\* the pieces of s between the occurrences of character c
RECURSIVE Pieces(_, _)
Pieces(s, c) ==
    IF FirstAt(s, c) = 0 THEN <<s>>
    ELSE <<SubSeq(s, 1, FirstAt(s, c) - 1)>> \o Pieces(After(s, FirstAt(s, c)), c)

\* the part of url before its query string
C23_Path(url) == IF FirstAt(url, "?") = 0 THEN url ELSE SubSeq(url, 1, FirstAt(url, "?") - 1)

\* the name=value pieces of the query string of url
C23_Parameters(url) ==
    IF FirstAt(url, "?") = 0 THEN <<>> ELSE Pieces(After(url, FirstAt(url, "?")), "&")

\* a name=value piece, decoded
C23_Pair(piece) ==
    <<C23_Decoded(SubSeq(piece, 1, FirstAt(piece, "=") - 1)),
      C23_Decoded(After(piece, FirstAt(piece, "=")))>>

\* the name of a key of the mapping
C23_Name(k) ==
    CASE k = "$select" -> <<"$", "s", "e", "l", "e", "c", "t">>
      [] k = "$where" -> <<"$", "w", "h", "e", "r", "e">>
      [] k = "$order" -> <<"$", "o", "r", "d", "e", "r">>
      [] k = "$group" -> <<"$", "g", "r", "o", "u", "p">>
      [] k = "$having" -> <<"$", "h", "a", "v", "i", "n", "g">>
      [] k = "$limit" -> <<"$", "l", "i", "m", "i", "t">>
      [] k = "$offset" -> <<"$", "o", "f", "f", "s", "e", "t">>

\* the value of a key of the mapping, as text
C23_Value(k, v) == IF k \in {"$limit", "$offset"} THEN numberToString(v) ELSE v

\* C23: for every parameter mapping that build() can return, the URL requested
\* by executeQuery has path https://<domain>/resource/<resourceId>.json and a
\* query string holding exactly the keys present in the mapping, under the same
\* names and with the same values: no key of the mapping is dropped, renamed or
\* reinterpreted, and none is added.
C23_UrlHoldsExactlyTheMapping ==
    Requested =>
        LET url == sent.fetch[1].url
            mapping == sent.executeQuery[1].queryParams
            parameters == C23_Parameters(url)
        IN /\ mapping = build.val
           /\ C23_Path(url) = <<"h", "t", "t", "p", "s", ":", "/", "/", "h", "/", "r", "e",
                                "s", "o", "u", "r", "c", "e", "/">>
                                  \o clientBinding.v.resourceId
                                  \o <<".", "j", "s", "o", "n">>
           /\ Len(parameters) = Cardinality(DOMAIN mapping)
           /\ {C23_Pair(parameters[i]) : i \in 1..Len(parameters)}
                  = {<<C23_Name(k), C23_Value(k, mapping[k])>> : k \in DOMAIN mapping}

----------------------------------------------------------------------------
(* C26 *)

\* sequence a is the beginning of sequence b
IsPrefix(a, b) == Len(a) <= Len(b) /\ SubSeq(b, 1, Len(a)) = a

\* the condition sequence a mutator appends to
C26_Family(m) ==
    IF m \in WhereFamily \cup RawFamily THEN "where"
    ELSE IF m = "orderBy" THEN "order"
    ELSE IF m \in HavingFamily THEN "having"
    ELSE "none"

\* the sequence held in field i of the builder is what it was before the last
\* call, with exactly one entry more at the end when the call was a successful
\* call of the family, and no entry more otherwise
C26_Grows(i, family) ==
    /\ IsPrefix(previous.builder[i], builder[i])
    /\ Len(builder[i]) =
           Len(previous.builder[i])
               + (IF last.outcome = ReturnsThis /\ C26_Family(last.call.m) = family
                  THEN 1 ELSE 0)

\* the first n stored conditions in insertion order, each but the first after
\* its stored join token
RECURSIVE C26_WhereText(_)
C26_WhereText(n) ==
    IF n = 1 THEN conditionStr(whereConditions[1]).val
    ELSE C26_WhereText(n - 1) \o <<" ">> \o whereConditions[n].logicalOperator \o <<" ">>
             \o conditionStr(whereConditions[n]).val

RECURSIVE C26_HavingText(_)
C26_HavingText(n) ==
    IF n = 1 THEN havingConditionStr(havingConditions[1]).val
    ELSE C26_HavingText(n - 1) \o <<" ">> \o havingConditions[n].logicalOperator
             \o <<" ">> \o havingConditionStr(havingConditions[n]).val

RECURSIVE C26_OrderText(_)
C26_OrderText(n) ==
    LET pair == orderByConditions[n].column \o <<" ">> \o orderByConditions[n].direction IN
    IF n = 1 THEN pair ELSE C26_OrderText(n - 1) \o <<",">> \o pair

\* C26: the where, order-by and having condition sequences are append-only:
\* every successful call of a mutator of the family extends its sequence by
\* exactly one entry at the end, existing entries are never modified, removed or
\* reordered by any operation, and build() renders them in insertion order.
C26_SequencesAppendOnly ==
    /\ C26_Grows(2, "where")
    /\ C26_Grows(3, "order")
    /\ C26_Grows(5, "having")
    /\ BuiltMapping =>
           /\ Len(whereConditions) > 0
                  => Built("$where", C26_WhereText(Len(whereConditions)))
           /\ Len(orderByConditions) > 0
                  => Built("$order", C26_OrderText(Len(orderByConditions)))
           /\ Len(havingConditions) > 0
                  => Built("$having", C26_HavingText(Len(havingConditions)))

C26_Witness ==
    /\ BuiltMapping
    /\ Len(calls) = 2
    /\ calls[1] = Call("orderBy", <<"x">>, EMPTY, Str(<<"d", "e", "S", "C">>))
    /\ calls[2] = Call("orderBy", <<"x">>, EMPTY, NoDirection)
    /\ Built("$order", <<"x", " ", "D", "E", "S", "C", ",", "x", " ", "A", "S", "C">>)

----------------------------------------------------------------------------
(* C27 *)

\* C27: a structured condition whose operator is IS NULL or IS NOT NULL renders
\* as exactly "<column> <operator>" with the value suppressed, whatever value was
\* passed to the mutator (null or not), in both $where and $having.
C27_NullOperatorsSuppressValue ==
    (/\ BuiltAfterOne
     /\ calls[1].m \in WhereFamily \cup HavingFamily
     /\ calls[1].operator \in {<<"I", "S", " ", "N", "U", "L", "L">>,
                               <<"I", "S", " ", "N", "O", "T", " ", "N", "U", "L", "L">>})
        => /\ last.outcome.kind = "value"
           /\ DOMAIN last.outcome.val = {ClauseKey(calls[1])}
           /\ last.outcome.val[ClauseKey(calls[1])]
                  = calls[1].column \o <<" ">> \o calls[1].operator

C27_Witness ==
    /\ BuiltAfterOne
    /\ calls[1] = Call("andHaving", <<"n", "o">>, OpIsNotNull, Str(<<"a", "'">>))
    /\ Built("$having", <<"n", "o", " ", "I", "S", " ", "N", "O", "T", " ", "N", "U", "L",
                          "L">>)

----------------------------------------------------------------------------
(* C28 *)

\* a condition with IN and a non-sequence value has been appended
C28_HoldsInScalar == \E i \in 1..Len(calls) : InScalar(calls[i])

\* C28, as stated: once a where-family or having-family call has appended a
\* condition with operator IN and a non-sequence value, every later build() and
\* execute() on that builder fails with InvalidInValue, whatever mutators are
\* called in between, and such an execute() on a bound builder issues no network
\* request.
C28_InScalarFailsEveryRender ==
    (C28_HoldsInScalar /\ last.call.m \in {"build", "execute"})
        => /\ last.outcome = Throw(InvalidInValue)
           /\ sent = NoTraffic

\* C28, amended: ... every later build(), and every later execute() on a bound
\* builder, fails with InvalidInValue (execute() on an unbound builder fails with
\* NotBound), and no such execute() issues a network request.
C28_InScalarFailsEveryRenderWhenBound ==
    (C28_HoldsInScalar /\ last.call.m \in {"build", "execute"})
        => /\ last.outcome = IF last.call.m = "execute" /\ clientBinding = Null
                             THEN Throw(NotBound)
                             ELSE Throw(InvalidInValue)
           /\ sent = NoTraffic

C28_Witness ==
    /\ last.call.m = "execute" /\ clientBinding # Null
    /\ Len(calls) = 2
    /\ calls[1] = Call("orWhere", <<"x">>, OpIn, Num(7))
    /\ calls[2] = Call("select", EMPTY, EMPTY, Str(<<"a">>))
    /\ last.outcome = Throw(InvalidInValue)
    /\ sent.fetch = <<>>

----------------------------------------------------------------------------
(* C30 *)

Mutators ==
    WhereFamily \cup RawFamily \cup HavingFamily
        \cup {"select", "orderBy", "groupBy", "limit", "offset"}

\* the key of build() that a mutator contributes to
OwnKey(m) ==
    CASE m = "select" -> "$select"
      [] m \in WhereFamily \cup RawFamily -> "$where"
      [] m = "orderBy" -> "$order"
      [] m = "groupBy" -> "$group"
      [] m \in HavingFamily -> "$having"
      [] m = "limit" -> "$limit"
      [] m = "offset" -> "$offset"
      [] OTHER -> "none"

\* the position in builder of the field a call assigns
OwnField(m) ==
    CASE m = "select" -> 1
      [] m \in WhereFamily \cup RawFamily -> 2
      [] m = "orderBy" -> 3
      [] m = "groupBy" -> 4
      [] m \in HavingFamily -> 5
      [] m = "limit" -> 6
      [] m = "offset" -> 7
      [] OTHER -> 8

\* mappings a and b agree on key k: in both with one value, or in neither
AgreeOn(a, b, k) ==
    /\ k \in DOMAIN a <=> k \in DOMAIN b
    /\ k \in DOMAIN a => a[k] = b[k]

\* C30: every mutator changes only its own clause field and leaves all others
\* unchanged: select changes at most $select, the where family at most $where,
\* orderBy at most $order, groupBy at most $group, the having family at most
\* $having, limit at most $limit, offset at most $offset, and bind changes no key
\* of build(); so build() after any sequence of calls holds only keys of the
\* clause families that were called.  (Keys are compared where build() returns a
\* mapping before and after the call.)
C30_MutatorsChangeOwnClauseOnly ==
    /\ last.call.m \in Mutators \cup {"bind"} =>
           /\ \A i \in (1..8) \ {OwnField(last.call.m)} : builder[i] = previous.builder[i]
           /\ (previous.built.kind = "value" /\ build.kind = "value") =>
                  \A k \in ParamKeys \ {OwnKey(last.call.m)} :
                      AgreeOn(build.val, previous.built.val, k)
    /\ BuiltMapping =>
           \A k \in DOMAIN last.outcome.val : \E i \in 1..Len(calls) : OwnKey(calls[i].m) = k

C30_Witness ==
    /\ last.call = Call("limit", EMPTY, EMPTY, Num(0))
    /\ calls[1] = Call("offset", EMPTY, EMPTY, Num(5))
    /\ previous.built.kind = "value"
    /\ DOMAIN previous.built.val = {"$offset"}
    /\ DOMAIN build.val = {"$limit", "$offset"}
    /\ build.val["$offset"] = 5

----------------------------------------------------------------------------
(* C24 *)

\* C24: builder state is owned exclusively by the builder instance: once
\* select(fields), groupBy(columns) or a where/having-family call with a sequence
\* value has returned, the result of build() can change only through a later
\* mutator call on that builder, not through the caller modifying the sequence
\* it passed in.
C24_StateOwnedByBuilder ==
    last.call.m = "caller" =>
        /\ builder = previous.builder
        /\ previous.built # Undefined => build = previous.built

----------------------------------------------------------------------------
(* C25 *)

\* the calls made on the builder in use
C25_OnBuilder == Mutators \cup {"bind", "build", "execute"}

----------------------------------------------------------------------------
(* C21 *)

\* an execute() promise has just settled after its request reached fetch
C21_Settled == last.call.m = "settle" /\ Len(sent.fetch) = 1

\* the timer expired before the request had completed: fetch was rejected with
\* the abort, or the body was being read when the signal was aborted
C21_Elapsed(fetched) ==
    \/ fetched.kind = "error" /\ fetched.name = "AbortError"
    \/ fetched.kind = "response" /\ fetched.body.t = "aborted"

C21_TimeoutError(client) ==
    Reject(TimeoutPrefix \o numberToString(state(client).timeout) \o <<"m", "s">>)

\* C21: when the client has a timeout configured and it elapses before the
\* request has completed (response received and body decoded), the request is
\* aborted and executeQuery rejects with the timeout-specific error, in every
\* interleaving of the timer expiry with the fetch resolution and the body
\* decoding; when no timeout is configured the request is never aborted by the
\* client.
C21_TimeoutInEveryInterleaving ==
    /\ C21_Settled /\ C21_Elapsed(sent.fetch[1].fetched) =>
           last.outcome = C21_TimeoutError(sent.executeQuery[1].client)
    /\ C21_Settled /\ state(sent.executeQuery[1].client).timeout = 0 =>
           ~C21_Elapsed(sent.fetch[1].fetched)
    /\ \A i \in 1..Len(inflight) :
           state(inflight[i].client).timeout = 0 => ~inflight[i].aborted

----------------------------------------------------------------------------
(* C29 *)

\* the URL is the one for the limit the builder held
C29_UrlFor(url, held) ==
    LET name == <<"%", "2", "4", "l", "i", "m", "i", "t">> IN
    IF held[6].t = "null" THEN ~UrlNames(url, name)
    ELSE UrlHas(url, name, numberToString(held[6].v))

\* the mapping is the one for the limit the builder held
C29_MappingFor(queryParams, held) ==
    IF held[6].t = "null" THEN "$limit" \notin DOMAIN queryParams
    ELSE "$limit" \in DOMAIN queryParams /\ queryParams["$limit"] = held[6].v

\* C29: execute() renders the query and builds the request URL synchronously
\* within the call, before its first suspension point: a mutator call made on
\* the builder after execute() was invoked but before its promise settles does
\* not change the request that that execute sends, and two execute() calls
\* started one after the other each send the request for the state held at
\* their own invocation.
C29_RequestFixedAtInvocation ==
    \A i \in 1..Len(inflight) :
        /\ C29_UrlFor(inflight[i].url, inflight[i].held)
        /\ C29_MappingFor(inflight[i].queryParams, inflight[i].held)
        /\ inflight[i].resourceId = inflight[i].held[8].v.resourceId

\* two calls are suspended, started for different limits, the first already
\* past fetch, and the builder has since been given a third limit
C29_Witness ==
    /\ Len(inflight) = 2
    /\ inflight[1].phase = "decoding"
    /\ inflight[1].held[6] # inflight[2].held[6]
    /\ inflight[1].url # inflight[2].url
    /\ limitValue # inflight[2].held[6]
    /\ limitValue # inflight[1].held[6]

====
